---- MODULE Spec2Model ----
(***************************************************************************)
(* CourtScraper backend (src/backend/app.py and the four scraper classes). *)
(*                                                                         *)
(* The Flask application keeps four process-wide dictionaries              *)
(*   active_sessions, district_causelist_sessions, pdf_cache,              *)
(*   current_search_session                                                *)
(* and serves every request on its own thread (app.run, threaded by        *)
(* default).  A request handler is modelled as a sequence of steps of one  *)
(* request thread; a step boundary is placed wherever the handler reads or *)
(* writes one of the shared dictionaries or calls the portal.  The portal, *)
(* the clock and the request payloads are the environment: their values    *)
(* are drawn with \E from small sets.                                      *)
(***************************************************************************)
EXTENDS Integers, Sequences, FiniteSets, TLC

\* ------------------------------------------------------------------ bounds
MaxKeys == 2        \* uuid4 keys generated for active_sessions in one run
MaxDropdowns == 1   \* uuid4 keys generated for district_causelist_sessions
MaxScrapers == 2    \* scraper objects constructed in one run
MaxTime == 1        \* distinct readings of the wall clock are 0..MaxTime
NumThreads == 2     \* request threads of the server
NumLinks == 1       \* distinct attachment links the portal hands out

Keys == 1..MaxKeys
Dropdowns == 1..MaxDropdowns
NoKey == 0          \* a request without session_id (data.get returns None)
UnknownKey == MaxKeys + 1   \* a session_id string that uuid4 never returns
Scrapers == 1..MaxScrapers
NoScraper == 0
Threads == 1..NumThreads
Links == 1..NumLinks
Times == 0..MaxTime

\* The four portal variants; each has a search and a verify-captcha endpoint.
Kinds == {"hc", "dc", "hccl", "dcl"}

\* What the portal does with a CAPTCHA-gated submission.
PortalOutcomes == {"found", "norecord", "badcaptcha", "transport"}

VARIABLES
    active_sessions,              \* app.py:21    session_id -> scraper
    district_causelist_sessions,  \* app.py:1014  dropdown session_id -> scraper
    scraper_kind,                 \* the class of every constructed scraper object
    captcha_seq,                  \* per scraper: CAPTCHAs issued on its HTTP session
    session_init,                 \* per scraper: how its initialize_session calls ended
    challenge_of,                 \* per key: the challenge returned together with it
    issued,                       \* number of uuid4 keys generated so far
    pdf_cache,                    \* app.py:25    the set of keys of pdf_cache
    current_search_session,       \* app.py:28    pdf_ids of the live epoch
    pc,                           \* per thread: position in its request handler
    req,                          \* per thread: the handler's local variables
    completed,                    \* history: keys whose verify request has returned
    proxy_out,                    \* the first call of /api/proxy-pdf: input and answer
    scraper_class,                \* the class of the scraper object under call
    args,                         \* the arguments its hierarchy methods are called with
    app_token,                    \* self.app_token of that object
    portal_token,                 \* the last app_token a portal response contained
    requests,                     \* the requests of the last method call
    returned,                     \* what the last method call returned
    lookup_at,                    \* per scraper: captcha_seq at its last hierarchy lookup
    image,                        \* captcha_ocr: the image bytes handed to the guesser
    reader,                       \* captcha_ocr.py:12  _reader
    guess,                        \* captcha_ocr: the last call of detect_captcha_text
    html,                         \* the history page or cause-list fragment the portal serves
    fields,                       \* the other fields of the scraper object under call
    parsed,                       \* per parser: what its first call returned
    searched,                     \* the last call of search_case_in_text
    disk,                         \* downloads/orders: the files in it
    download_out,                 \* the last call of /api/download-pdf
    stored                        \* the last entry a scraper wrote to pdf_cache, with its key

vars == <<active_sessions, district_causelist_sessions, scraper_kind, captcha_seq, session_init,
          challenge_of, issued, pdf_cache, current_search_session, pc, req,
          completed, proxy_out, scraper_class, args, app_token, portal_token, requests, returned,
          lookup_at, image, reader, guess, html, fields, parsed, searched, disk,
          download_out, stored>>

registries == <<active_sessions, district_causelist_sessions, scraper_kind,
                captcha_seq, session_init, challenge_of, issued>>

scraper_state == <<scraper_class, args, app_token, portal_token, requests, returned>>

ocr_state == <<image, reader, guess>>

page_state == <<html, fields, parsed>>

text_state == <<searched, download_out, stored>>

aside == <<proxy_out, scraper_state, lookup_at, ocr_state, page_state, text_state>>

\* ------------------------------------------------------------- responses
NoResp == [ok |-> FALSE, status |-> 0, error |-> "none"]
Success == [ok |-> TRUE, status |-> 200, error |-> ""]
Failure(code, msg) == [ok |-> FALSE, status |-> code, error |-> msg]

\* app.py:292-296, 567-571, 925-929, 1262-1266
InvalidSession == Failure(400, "Invalid or expired session. Please try searching again.")
\* app.py:344-348, 609-613, 1000-1007, 1311-1318: except Exception -> str(e), 500
InternalError(e) == Failure(500, e)

NoChallenge == [scraper |-> NoScraper, seq |-> 0]

NoReq == [endpoint |-> "none", session_id |-> NoKey, scraper |-> NoScraper,
          result |-> "none", cause |-> "none", has_term |-> TRUE,
          todo |-> {}, ids |-> {}, submitted |-> FALSE, used |-> NoChallenge,
          registered |-> FALSE, after |-> FALSE, case_data |-> "none",
          record |-> <<>>, pdf_id |-> <<>>, resp |-> NoResp]

\* self.app_token = None (district_court_scraper.py:83,
\* district_causelist_scraper.py: __init__); the requests send '' for it.
NoToken == 0
MaxToken == 2
Tokens == 1..MaxToken

\* Python's None, and the key fetch_establishments returns for a court
\* complex without an establishment dropdown.
None == <<"None">>
NoEstablishment == <<"__no_establishment__">>

NoArgs == [court_complex_code |-> <<>>, est_code |-> None]
\* captcha_ocr: no image, and no call of detect_captcha_text yet.
NoImage == [decodable |-> FALSE, fragments |-> <<>>]
NoGuess == [called |-> FALSE, raised |-> FALSE, text |-> <<>>, failed |-> {},
            reader_before |-> "None"]

\* No hierarchy lookup has run on the scraper.
NoLookup == -1

NoReturn == [method |-> "none", type |-> "none", items |-> {}]

\* download_pdf_to_memory returned None.
NoBody == [got |-> FALSE, head |-> <<>>, len |-> 0]

\* proxy_out before the first call of /api/proxy-pdf.
NoProxyCall == [called |-> FALSE, pdf_url |-> FALSE, session_id |-> NoKey,
                session_ok |-> FALSE, downloaded |-> FALSE, body |-> NoBody,
                resp |-> NoResp, content |-> <<>>]

\* A finished handler hands its response to the server before anything new
\* starts: the step that frees the thread (Return) touches no shared state, so
\* taking it first loses no behaviour of the dictionaries.  Two threads are
\* therefore "done" together only if their requests overlapped.
\* The parsers that read a page or fragment.
Parsers == {"parse_case_history", "parse_cause_list_html"}

NoParse == [p \in Parsers |-> <<>>]

\* ---------------------------------------------------------- history pages
\* A page as BeautifulSoup sees it: its tables and spans in document order.
\* A row is the sequence of its td cells (a header row of th cells has none).
\* A cell has its stripped text, the onclick and href of the anchor it holds
\* (NoLink: none) and, in the party tables, the pieces of the cell between
\* <br> tags, each as the sequence of its words.
NoLink == 0

Td(text, onclick, href, parts) ==
    [text |-> text, onclick |-> onclick, href |-> href, parts |-> parts]

El(tag, class, rows, text) == [tag |-> tag, class |-> class, rows |-> rows, text |-> text]

\* soup.find(...) returned None
NoElement == El("none", "none", <<>>, "")

\* The content of the page is not followed.
NoHtml == <<NoElement>>

\* The tables of a District Court history page (data_list of viewHistory).
DcTables ==
    LET T(text) == Td(text, NoLink, NoLink, <<>>)
    IN << El("table", "case_details_table",
             << <<T("Case Type"), T("CS")>>,
                <<T("Filing Number"), T("12/2020"), T("Filing Date"), T("01-01-2020")>>,
                <<T("CNR Number"), T("")>>,
                <<T("Registration")>> >>, ""),
          El("table", "case_status_table",
             << <<T("First Hearing Date"), T("02-02-2020")>>,
                <<T("Case Stage"), T("Evidence"), T("Court Number"), T("")>> >>, ""),
          El("table", "Petitioner_Advocate_table",
             << <<Td("", NoLink, NoLink,
                     << <<"1)", "Ram", "Advocate", "Shyam">>, <<"Advocate">>,
                        <<"2)", "Sita">>, <<>> >>)>> >>, ""),
          El("table", "Respondent_Advocate_table",
             << <<Td("", NoLink, NoLink,
                     << <<"1)", "State">>, <<"Advocate", "Gopal">>, <<"Vs">>,
                        <<"2)", "Board", "Advocate", "Hari">> >>)>> >>, ""),
          El("table", "acts_table",
             << <<>>,
                <<T("IPC"), T("420")>>,
                <<T(""), T("")>>,
                <<T("CrPC")>> >>, ""),
          El("table", "Lower_court_table",
             << <<T("Court"), T("JMFC")>>,
                <<T("Case No"), T("5"), T("Year"), T("2019")>> >>, ""),
          El("table", "history_table",
             << <<>>,
                <<T("Judge A"), Td("01-03-2020", 1, NoLink, <<>>), T("05-03-2020"),
                  T("Arguments")>>,
                <<T("Judge B"), T("02-03-2020"), T(""), T("Orders")>>,
                <<T("Judge C"), T(""), T(""), T("Notice")>>,
                <<T("Judge D"), T("03-03-2020"), T("06-03-2020")>> >>, ""),
          El("table", "order_table",
             << <<>> >>
             \o [l \in Links |-> <<T("1"), T("10-03-2020"), Td("Order", l, NoLink, <<>>)>>]
             \o << <<T("2"), T("11-03-2020"), T("Copy of order")>>,
                   <<T("3"), T("12-03-2020")>> >>, "") >>

\* The tables and spans of a High Court history page
\* (o_civil_case_history.php).
HcTables ==
    LET T(text) == Td(text, NoLink, NoLink, <<>>)
    IN << El("table", "case_details_table",
             << <<T("Filing Number"), T("12/2020"), T("Filing Date"), T("01-01-2020")>>,
                <<T("CNR Number"), T(""), T("Stage")>>,
                <<T("Registration")>> >>, ""),
          El("table", "table_r",
             << <<T("Case Status"), T("Pending")>>,
                <<T("Coram"), T("Judge A"), T("Bench"), T("Single")>> >>, ""),
          El("span", "Petitioner_Advocate_table", <<>>, "1) Ram Advocate- Shyam"),
          El("span", "Respondent_Advocate_table", <<>>, "1) State"),
          El("table", "order_table",
             << <<>> >>
             \o [l \in Links |-> <<T("1"), T("Order"), T("Judge A"), T("10-03-2020"),
                                   Td("View", NoLink, l, <<>>)>>]
             \o << <<T("2"), T("Order"), T("Judge B"), T("11-03-2020"), T("")>>,
                   <<T("3"), T("Order"), T("Judge C"), T("12-03-2020")>> >>, "") >>

ClassesOf(page) == {page[i].class : i \in 1..Len(page)}

\* The page with the elements of the classes in present, the others missing.
Lacking(page, present) == SelectSeq(page, LAMBDA el : el.class \in present)

\* History pages with every subset of their tables.
Htmls ==
    {Lacking(DcTables, present) : present \in SUBSET ClassesOf(DcTables)}
    \cup {Lacking(HcTables, present) : present \in SUBSET ClassesOf(HcTables)}

\* A find that takes the first element of the tag, whatever its class.
find_any(page, tag, class) ==
    LET hits == {i \in 1..Len(page) : page[i].tag = tag}
    IN IF hits = {} THEN NoElement
       ELSE page[CHOOSE i \in hits : \A j \in hits : i <= j]

\* soup.find(tag, class_=class): the first such element, or None
find(page, tag, class) ==
    LET hits == {i \in 1..Len(page) : page[i].tag = tag /\ page[i].class = class}
    IN IF hits = {} THEN NoElement
       ELSE page[CHOOSE i \in hits : \A j \in hits : i <= j]

\* rows[1:]
SkipHeader(rows) == IF rows = <<>> THEN <<>> ELSE Tail(rows)

RECURSIVE Flatten(_)
Flatten(seqs) == IF seqs = <<>> THEN <<>> ELSE Head(seqs) \o Flatten(Tail(seqs))

\* A dict that keeps the value a key was given first.
FirstDict(pairs) ==
    [k \in {pairs[i][1] : i \in 1..Len(pairs)} |->
        pairs[CHOOSE i \in 1..Len(pairs) :
                  /\ pairs[i][1] = k
                  /\ \A j \in 1..Len(pairs) : pairs[j][1] = k => i <= j][2]]

\* The dict after d[key] = value for the <<key, value>> pairs in order.
Dict(pairs) ==
    [k \in {pairs[i][1] : i \in 1..Len(pairs)} |->
        pairs[CHOOSE i \in 1..Len(pairs) :
                  /\ pairs[i][1] = k
                  /\ \A j \in 1..Len(pairs) : pairs[j][1] = k => j <= i][2]]

\* DistrictCourtsScraper.parse_case_history(html).  Every section is
\* `table = soup.find('table', class_=...); if table: ...`, and the record
\* starts with every sub-structure empty.
DcParseCaseHistory(page) ==
    LET Rows(class) == find(page, "table", class).rows
        \* rows of two cells (key, value) or four (key, value, key, value);
        \* `if key and value`
        KeyValues(rows) ==
            Dict(SelectSeq(
                Flatten([i \in 1..Len(rows) |->
                    IF Len(rows[i]) = 2 THEN <<<<rows[i][1].text, rows[i][2].text>>>>
                    ELSE IF Len(rows[i]) = 4
                         THEN <<<<rows[i][1].text, rows[i][2].text>>,
                                <<rows[i][3].text, rows[i][4].text>>>>
                         ELSE <<>>]),
                LAMBDA p : p[1] # "" /\ p[2] # ""))
        \* the pieces of all cells of a party table
        Parts(rows) ==
            LET cells == Flatten(rows)
            IN Flatten([i \in 1..Len(cells) |-> cells[i].parts])
        Unnumbered(text) ==
            IF text # <<>> /\ Head(text) \in {"1)", "2)"} THEN Tail(text) ELSE text
        \* the advocate is split off at the first "Advocate" that something follows
        AdvocateAt(text) ==
            LET adv == {i \in 1..(Len(text) - 1) : text[i] \in {"Advocate", "advocate"}}
            IN IF adv = {} THEN Len(text) + 1
               ELSE CHOOSE i \in adv : \A j \in adv : i <= j
        PetitionerName(text) == Unnumbered(SubSeq(text, 1, AdvocateAt(text) - 1))
        Petitioner(text) ==
            Dict(<<<<"name", PetitionerName(text)>>>>
                 \o IF AdvocateAt(text) < Len(text)
                    THEN <<<<"advocate", SubSeq(text, AdvocateAt(text) + 1, Len(text))>>>>
                    ELSE <<>>)
        pet == SelectSeq(Parts(Rows("Petitioner_Advocate_table")),
                         LAMBDA text : PetitionerName(text)
                                           \notin {<<>>, <<"Advocate">>, <<"advocate">>})
        res == SelectSeq(Parts(Rows("Respondent_Advocate_table")),
                         LAMBDA text :
                             /\ text # <<>>
                             /\ Head(text) \notin {"Advocate", "advocate"}
                             /\ Unnumbered(text) \notin {<<>>, <<"Vs">>, <<"vs">>, <<"V/s">>})
        acts == SelectSeq(SkipHeader(Rows("acts_table")),
                          LAMBDA cells : Len(cells) >= 2
                                         /\ (cells[1].text # "" \/ cells[2].text # ""))
        lower == SelectSeq(Rows("Lower_court_table"), LAMBDA cells : Len(cells) >= 2)
        hearings == SelectSeq(SkipHeader(Rows("history_table")),
                              LAMBDA cells : Len(cells) >= 4
                                             /\ (cells[2].text # "" \/ cells[3].text # ""))
        orders == SelectSeq(SkipHeader(Rows("order_table")), LAMBDA cells : Len(cells) >= 3)
    IN [case_details |-> KeyValues(Rows("case_details_table")),
        case_status |-> KeyValues(Rows("case_status_table")),
        parties |-> [petitioners |-> [i \in 1..Len(pet) |-> Petitioner(pet[i])],
                     respondents |-> [i \in 1..Len(res) |-> [name |-> Unnumbered(res[i])]]],
        acts |-> [i \in 1..Len(acts) |->
                     [act |-> acts[i][1].text, sections |-> acts[i][2].text]],
        subordinate_court |->
            Dict(SelectSeq(
                [i \in 1..Len(lower) |->
                    <<lower[i][1].text,
                      IF Len(lower[i]) = 4
                      THEN lower[i][2].text \o " " \o lower[i][4].text
                      ELSE lower[i][2].text>>],
                LAMBDA p : p[1] # "" /\ p[2] # "")),
        hearings |-> [i \in 1..Len(hearings) |->
                         Dict(<<<<"judge", hearings[i][1].text>>,
                                <<"business_on_date", hearings[i][2].text>>,
                                <<"hearing_date", hearings[i][3].text>>,
                                <<"purpose", hearings[i][4].text>>>>
                              \o IF hearings[i][2].onclick # NoLink
                                 THEN <<<<"business_on_date_link", hearings[i][2].onclick>>>>
                                 ELSE <<>>)],
        orders |-> [i \in 1..Len(orders) |->
                       Dict(<<<<"order_number", orders[i][1].text>>,
                              <<"order_date", orders[i][2].text>>,
                              <<"details", orders[i][3].text>>>>
                            \o IF orders[i][3].onclick # NoLink
                               THEN <<<<"pdf_link", orders[i][3].onclick>>>>
                               ELSE <<>>)]]

\* get_case_history: `case_data = self.parse_case_history(result['data_list']);
\* case_data['raw_response'] = result; case_data['search_result'] = search_result`
DcHistoryRecord(page) ==
    LET case_data == DcParseCaseHistory(page)
    IN [k \in DOMAIN case_data \cup {"raw_response", "search_result"} |->
           IF k = "raw_response" THEN "result"
           ELSE IF k = "search_result" THEN "search_result"
           ELSE case_data[k]]

\* The pdf_link values download_all_orders goes through.
PdfLinks(record) ==
    {record.orders[i].pdf_link :
         i \in {j \in 1..Len(record.orders) : "pdf_link" \in DOMAIN record.orders[j]}}

\* HCServicesCompleteScraper.parse_case_history(html); court: the fields
\* current_court_name, court_code and state_code of the scraper.
HcParseCaseHistory(page, court) ==
    LET Rows(class) == find(page, "table", class).rows
        \* the cells of a row of two or more cells, taken in pairs
        details == SelectSeq(Rows("case_details_table"), LAMBDA cells : Len(cells) >= 2)
        status == SelectSeq(Rows("table_r"), LAMBDA cells : Len(cells) = 2)
        pet == find(page, "span", "Petitioner_Advocate_table")
        res == find(page, "span", "Respondent_Advocate_table")
        orders == SelectSeq(SkipHeader(Rows("order_table")), LAMBDA cells : Len(cells) >= 5)
    IN [court_info |-> [court_name |-> court.current_court_name,
                        court_code |-> court.court_code,
                        state_code |-> court.state_code],
        case_details |->
            Dict(Flatten([i \in 1..Len(details) |->
                     [n \in 1..(Len(details[i]) \div 2) |->
                         <<details[i][2 * n - 1].text, details[i][2 * n].text>>]])),
        case_status |-> Dict([i \in 1..Len(status) |-> <<status[i][1].text, status[i][2].text>>]),
        parties |-> Dict((IF pet # NoElement THEN <<<<"petitioner", pet.text>>>> ELSE <<>>)
                         \o (IF res # NoElement THEN <<<<"respondent", res.text>>>> ELSE <<>>)),
        orders |-> [i \in 1..Len(orders) |->
                       [order_number |-> orders[i][1].text, order_on |-> orders[i][2].text,
                        judge |-> orders[i][3].text, order_date |-> orders[i][4].text,
                        view_link |-> orders[i][5].href]]]

\* The fields of an HCServicesCompleteScraper after __init__ and, for a
\* DistrictCourtsScraper, its empty lookup maps.
InitFields ==
    [current_court_name |-> "Delhi High Court", court_code |-> "1", state_code |-> "26",
     court_complex_code |-> "1", cached |-> {}, available_case_types |-> <<>>]

\* search_high_court assigns court_code, state_code and current_court_name
\* from the request before the scraper is stored.
RequestedCourt ==
    [InitFields EXCEPT !.current_court_name = "data.court_name",
                       !.court_code = "data.court_code",
                       !.state_code = "data.state_code"]

\* The complete history page of a variant.
FullPage(endpoint) == IF endpoint = "dc" THEN DcTables ELSE HcTables

\* The record a verify request builds from a history page.
Parse(endpoint, page) ==
    IF endpoint = "dc" THEN DcHistoryRecord(page)
    ELSE HcParseCaseHistory(page, RequestedCourt)

\* What a verify request's record is when the page is followed.
RecordOf(endpoint, case_data) ==
    IF case_data # "history" \/ html = NoHtml THEN <<>>
    ELSE Parse(endpoint, html)

\* downloads/orders beside app.py on the hosted deployment: the directory
\* cannot be written ("Could not save to disk (OK for Render)") and holds no
\* file.
HostedDisk == [writable |-> FALSE, files |-> {}]

NoResponsePending == \A t \in Threads : pc[t] # "done"

InitApp ==
    /\ active_sessions = [k \in Keys |-> NoScraper]
    /\ district_causelist_sessions = [d \in Dropdowns |-> NoScraper]
    /\ scraper_kind = [s \in Scrapers |-> "none"]
    /\ captcha_seq = [s \in Scrapers |-> 0]
    /\ session_init = [s \in Scrapers |-> "none"]
    /\ challenge_of = [k \in Keys |-> NoChallenge]
    /\ issued = 0
    /\ pdf_cache = {}
    /\ current_search_session = {}
    /\ pc = [t \in Threads |-> "idle"]
    /\ req = [t \in Threads |-> NoReq]
    /\ completed = {}
    /\ proxy_out = NoProxyCall
    /\ app_token = NoToken
    /\ portal_token = NoToken
    /\ requests = <<>>
    /\ returned = NoReturn
    /\ lookup_at = [s \in Scrapers |-> NoLookup]
    /\ reader = "None"
    /\ guess = NoGuess
    /\ fields = InitFields
    /\ parsed = NoParse
    /\ searched = <<>>
    /\ download_out = <<>>
    /\ stored = <<>>

\* The process after start-up: no scraper object is under call.
Init ==
    /\ InitApp
    /\ disk = HostedDisk
    /\ scraper_class = "none"
    /\ args = NoArgs
    /\ image = NoImage
    /\ html = NoHtml


\* A test that takes every key uuid4 has returned so far.
EverRegistered(k) == k \in 1..issued

\* `session_id and session_id in active_sessions`
Registered(k) == k \in Keys /\ active_sessions[k] # NoScraper

\* What a client can send as session_id: nothing, a key it was given, or a
\* string that is no key of this process.
ClientKeys == (1..issued) \cup {NoKey, UnknownKey}

\* str(e) of the exceptions the handlers catch.
WrongScraperClass == "TypeError or AttributeError: scraper of another variant"
NoSearchTerm == "AttributeError or TypeError: search_term is None"

\* ------------------------------------------------------ search endpoints
\* uuid.uuid4(): a key that was never generated before.
NewKey == issued + 1

\* A scraper constructor call: an object no registry knows yet.
NewScraper == CHOOSE s \in Scrapers :
                  /\ scraper_kind[s] = "none"
                  /\ \A r \in Scrapers : scraper_kind[r] = "none" => s <= r

CanConstruct == \E s \in Scrapers : scraper_kind[s] = "none"

\* search_high_court, search_district_court, search_causelist: a scraper is
\* constructed, its CAPTCHA is fetched, and it is stored under a new key.
\* search_causelist does not call initialize_session.  (The early returns on
\* a failed initialize_session / get_captcha leave every dictionary as it
\* was: they are stuttering steps.)
SearchCase(kind) ==
    /\ NoResponsePending
    /\ kind \in {"hc", "dc", "hccl"}
    /\ issued < MaxKeys
    /\ CanConstruct
    /\ LET s == NewScraper
           k == NewKey
       IN /\ scraper_kind' = [scraper_kind EXCEPT ![s] = kind]
          /\ session_init' = [session_init EXCEPT ![s] = IF kind = "hccl" THEN "none" ELSE "ok"]
          /\ captcha_seq' = [captcha_seq EXCEPT ![s] = 1]
          /\ active_sessions' = [active_sessions EXCEPT ![k] = s]
          /\ challenge_of' = [challenge_of EXCEPT ![k] = [scraper |-> s, seq |-> 1]]
          /\ issued' = k
    /\ UNCHANGED <<district_causelist_sessions, pdf_cache, current_search_session, pc, req, completed, disk, aside>>

\* init_district_causelist_session: the scraper that serves the dropdowns.
InitDropdownSession ==
    /\ NoResponsePending
    /\ CanConstruct
    /\ \E d \in Dropdowns :
         /\ district_causelist_sessions[d] = NoScraper
         /\ \A c \in Dropdowns : c < d => district_causelist_sessions[c] # NoScraper
         /\ scraper_kind' = [scraper_kind EXCEPT ![NewScraper] = "dcl"]
         /\ session_init' = [session_init EXCEPT ![NewScraper] = "ok"]
         /\ district_causelist_sessions' =
                [district_causelist_sessions EXCEPT ![d] = NewScraper]
    /\ UNCHANGED <<active_sessions, captcha_seq, issued, challenge_of, pdf_cache,
                   current_search_session, pc, req, completed, disk, aside>>

\* search_district_causelist: the dropdown scraper is reused when the request
\* names a known dropdown session, otherwise a scraper is constructed and
\* `scraper.initialize_session()` is called on it, its result dropped; in both
\* cases get_captcha runs on it and it is stored under a new key.  get_captcha
\* calls initialize_session once more when the scraper has no app_token, and
\* its GET of the CAPTCHA image does not depend on either call.
SearchDistrictCauselist(d) ==
    /\ NoResponsePending
    /\ issued < MaxKeys
    /\ LET reuse == d # NoKey /\ district_causelist_sessions[d] # NoScraper
           s == IF reuse THEN district_causelist_sessions[d] ELSE NewScraper
           k == NewKey
       IN /\ reuse \/ CanConstruct
          /\ scraper_kind' = [scraper_kind EXCEPT ![s] = "dcl"]
          /\ \E first_ok, again_ok \in BOOLEAN :
                 /\ reuse \/ first_ok => ~again_ok
                 /\ reuse => ~first_ok
                 /\ session_init' = [session_init EXCEPT ![s] =
                        IF reuse THEN @
                        ELSE IF first_ok \/ again_ok THEN "ok" ELSE "failed"]
          /\ captcha_seq' = [captcha_seq EXCEPT ![s] = @ + 1]
          /\ active_sessions' = [active_sessions EXCEPT ![k] = s]
          /\ challenge_of' = [challenge_of EXCEPT
                                 ![k] = [scraper |-> s, seq |-> captcha_seq[s] + 1]]
          /\ issued' = k
    /\ UNCHANGED <<district_causelist_sessions, pdf_cache, current_search_session, pc, req, completed, disk, aside>>



\* ---------------------------------------------- verify-captcha endpoints
\* The request returns: the thread keeps its response until it takes the next
\* request.
Respond(t, r, response) ==
    /\ pc' = [pc EXCEPT ![t] = "done"]
    /\ req' = [req EXCEPT ![t] = [r EXCEPT !.resp = response, !.scraper = NoScraper,
                                            !.result = "none", !.todo = {},
                                            !.has_term = TRUE]]
    /\ completed' = completed \cup ({r.session_id} \cap Keys)

Goto(t, r, label) ==
    /\ pc' = [pc EXCEPT ![t] = label]
    /\ req' = [req EXCEPT ![t] = r]
    /\ UNCHANGED completed

\* The scraper method each verify endpoint calls exists, with the keyword
\* arguments the endpoint passes, only on that endpoint's own scraper class
\* (search_case(case_type=, year=) on HCServicesCompleteScraper,
\* search_case(case_type_code=, case_year=) on DistrictCourtsScraper,
\* fetch_cause_list(state_code, court_code, date, captcha) on HCCauseListScraper,
\* process_cause_list_search on DistrictCauseListScraper); on any other class
\* the call raises AttributeError or TypeError.
MethodMatches(endpoint, kind) == endpoint = kind

\* `if not session_id or session_id not in active_sessions: return 400`
VerifyBegin(t, endpoint, k) ==
    /\ pc[t] = "idle"
    /\ NoResponsePending
    /\ k \in ClientKeys
    /\ LET r == [NoReq EXCEPT !.endpoint = endpoint, !.session_id = k,
                              !.after = (k \in completed)]
       IN IF ~Registered(k)
          THEN Respond(t, r, InvalidSession)
          ELSE Goto(t, r, "v_lookup")
    /\ UNCHANGED <<registries, pdf_cache, current_search_session, disk, aside>>

\* `scraper = active_sessions[session_id]` (KeyError when the key has gone)
VerifyLookup(t) ==
    /\ pc[t] = "v_lookup"
    /\ LET r == req[t]
           s == active_sessions[r.session_id]
       IN IF s = NoScraper
          THEN Respond(t, r, InternalError("KeyError"))
          ELSE Goto(t, [r EXCEPT !.scraper = s], "v_submit")
    /\ UNCHANGED <<registries, pdf_cache, current_search_session, disk, aside>>

\* What the scraper call returns to the handler for each portal outcome.
\*   HC   search_case: the JSON result, or None for every failure
\*   DC   search_case: the case_data of get_case_history, or None
\*   HCCL fetch_cause_list: the item list, [] without a table, None on failure
\*   DCL  process_cause_list_search: results['status']
ScraperResult(endpoint, outcome) ==
    CASE endpoint \in {"hc", "dc"} ->
             IF outcome = "found" THEN "data" ELSE "none"
      [] endpoint = "hccl" ->
             IF outcome = "found" THEN "data"
             ELSE IF outcome = "norecord" THEN "empty" ELSE "none"
      [] endpoint = "dcl" ->
             IF outcome = "found" THEN "success"
             ELSE IF outcome = "norecord" THEN "no_records" ELSE "error"

\* The failure payload of each verify endpoint (app.py:311-315, 586-590,
\* 945-949, 1295-1299 with district_causelist_scraper.py:664-667).
FailureOf(endpoint) ==
    CASE endpoint \in {"hc", "dc"} -> Failure(400, "Case not found or invalid captcha")
      [] endpoint = "hccl" -> Failure(400, "Invalid captcha or failed to fetch cause list")
      [] endpoint = "dcl" -> Failure(400, "Failed to fetch cause list or invalid CAPTCHA")

\* What the record a case search hands to its handler was built from.
\*   DC   search_case returns what get_case_history returns: the record parsed
\*        from the viewHistory answer, or (no viewHistory link in the first
\*        answer, viewHistory refused) parse_basic_case_data of the first answer
\*   HC   search_case returns the first answer; the handler fetches the history
CaseData(endpoint, res, history) ==
    IF res # "data" THEN "none"
    ELSE IF endpoint = "dc" THEN (IF history THEN "history" ELSE "locator")
    ELSE IF endpoint = "hc" THEN "locator"
    ELSE "none"

\* The CAPTCHA-gated submission through the scraper the key is bound to.
VerifySubmit(t) ==
    /\ pc[t] = "v_submit"
    /\ LET r == req[t]
           s == r.scraper
           e == r.endpoint
       IN IF ~MethodMatches(e, scraper_kind[s])
          THEN Respond(t, r, InternalError(WrongScraperClass))
          ELSE \E outcome \in PortalOutcomes, term \in BOOLEAN, orders \in SUBSET Links,
                  history \in BOOLEAN :
                 LET res == ScraperResult(e, outcome)
                     sent == [r EXCEPT !.submitted = TRUE,
                                       !.used = [scraper |-> s, seq |-> captcha_seq[s]],
                                       !.cause = outcome,
                                       !.result = res,
                                       !.has_term = term,
                                       !.case_data = CaseData(e, res, history),
                                       !.record = RecordOf(e, CaseData(e, res, history)),
                                       !.todo = IF res = "data" /\ e # "hc"
                                                THEN orders ELSE {}]
                 IN /\ ~term => (e = "dcl" /\ res = "success") \/ (e = "hccl" /\ res = "data")
                    /\ ~history => e = "dc" /\ res = "data"
                    /\ res = "data" /\ e = "hccl" => orders # {}
                    /\ ~(res = "data" /\ e \in {"dc", "hccl"}) => orders = {}
                    /\ e = "dc" /\ res = "data" /\ history /\ html # NoHtml =>
                           orders = PdfLinks(RecordOf(e, "history"))
                    /\ CASE e = "dcl" /\ res = "success" /\ ~term ->
                              \* search_in_cause_list(cases, None, ...) raises
                              Respond(t, sent, InternalError(NoSearchTerm))
                         [] e = "hccl" /\ res = "none" ->
                              Respond(t, sent, FailureOf(e))
                         [] e = "hccl" /\ res = "empty" ->
                              Respond(t, sent, Success)
                         [] e = "hccl" /\ res = "data" ->
                              Goto(t, sent, "v_download")
                         [] OTHER ->
                              Goto(t, sent, "v_del")
    /\ UNCHANGED <<registries, pdf_cache, current_search_session, disk, aside>>


\* `del active_sessions[session_id]` (KeyError when the key has gone), then the
\* handler's branch on what the scraper returned.  verify_causelist_captcha
\* has no such statement and never reaches this step.
VerifyDel(t) ==
    /\ pc[t] = "v_del"
    /\ LET r == req[t]
           k == r.session_id
           e == r.endpoint
       IN IF active_sessions[k] = NoScraper
          THEN /\ Respond(t, r, InternalError("KeyError"))
               /\ UNCHANGED active_sessions
          ELSE /\ active_sessions' = [active_sessions EXCEPT ![k] = NoScraper]
               /\ CASE r.result \in {"none", "error"} -> Respond(t, r, FailureOf(e))
                    [] e = "hc" /\ r.result = "data" -> Goto(t, r, "v_history")
                    [] e = "dc" /\ r.result = "data" ->
                         Goto(t, r, IF r.todo = {} THEN "v_cleanup" ELSE "v_download")
                    [] OTHER -> Respond(t, r, Success)
    /\ UNCHANGED <<district_causelist_sessions, scraper_kind, captcha_seq, session_init,
                   challenge_of, issued, pdf_cache, current_search_session, disk, aside>>

\* verify_high_court_captcha after a hit: get_case_history returns the HTML or
\* None.  With the HTML the record is parsed and download_all_orders(case_data,
\* pdf_cache) is called; HCServicesCompleteScraper.download_all_orders takes the
\* second argument as save_dir, and download_order_pdf raises TypeError at
\* os.path.join(project_root, save_dir), before its GET, and returns None: no
\* order is fetched, pdf_cache is not written and no order gets a pdf_id, so
\* the epoch that follows registers no key.  todo keeps the linked orders whose
\* PDF the portal has ready.  Without the HTML the handler answers success with
\* {'raw_search_result': search_result}.
VerifyHistory(t) ==
    /\ pc[t] = "v_history"
    /\ \E served \in BOOLEAN :
         IF served
         THEN LET record == RecordOf("hc", "history")
                  linked == IF record = <<>> THEN {}
                            ELSE {record.orders[i].view_link : i \in 1..Len(record.orders)}
                                     \ {NoLink}
              IN \E ready \in SUBSET linked :
                     Goto(t, [req[t] EXCEPT !.case_data = "history", !.record = record,
                                            !.todo = ready],
                          "v_cleanup")
         ELSE Respond(t, req[t], Success)
    /\ UNCHANGED <<registries, pdf_cache, current_search_session, disk, aside>>

\* The derived cache key: a hash of the link and the clock reading
\* (district_court_scraper.py:847: md5(link + timestamp) + strftime;
\*  causelist_scraper.py:436-437: md5(link)[:12] + int(timestamp)).  The two
\* formats differ, so keys of the two scrapers never coincide.
PdfId(kind, link, time) == <<kind, link, time>>

\* The name download_order_pdf gives the file it writes to downloads/orders:
\* the portal's own file name when the link carries one, else
\* order_<md5(link)[:12]>_<%Y%m%d_%H%M%S>.pdf.
DiskName(link, time, named) ==
    IF named THEN <<"portal", link>> ELSE <<"order", link, time>>

\* glob.glob(os.path.join(downloads_dir, f"*{pdf_id}*.pdf")): does the file
\* name hold the text of pdf_id.  A key of download_order_pdf is
\* <md5(link + timestamp)>_<%Y%m%d_%H%M%S>, 48 characters, where the longest
\* name the scraper makes up has 34 before ".pdf" and a portal's file name
\* holds no digest of a clock reading; a key of process_cause_list_pdfs names
\* no file at all.  A client of /api/download-pdf can send any text: a piece
\* of a file name ("order") or a pattern of its own ("*").
Glob(pdf_id, name) ==
    \/ pdf_id = <<"*">>
    \/ pdf_id = <<"order">> /\ name[1] = "order"

\* A store that keeps every document whose text was scanned.
StoreScanned(cache, pdf_id, fate) ==
    IF fate # "skipped" THEN cache \cup {pdf_id} ELSE cache

\* `pdf_cache[pdf_id] = {...}` of one iteration: process_cause_list_pdfs
\* reaches it under `if matches:`, download_order_pdf once the portal has
\* served a PDF; an assignment to a key the dict holds replaces its entry.
Store(cache, pdf_id, fate) ==
    IF fate = "stored" THEN cache \cup {pdf_id} ELSE cache

\* One iteration of the download loop.  `now` is what datetime.now() reads
\* during the iteration: the wall clock may read the same value in two
\* iterations or requests (two stores within one second; a clock set back).
\*   DC   download_all_orders -> download_order_pdf: the PDF is stored when
\*        the portal serves one.
\*   HCCL process_cause_list_pdfs: the PDF is stored when its text matches;
\*        search_case_in_text(None, text) raises once a text was extracted.
VerifyDownload(t) ==
    /\ pc[t] = "v_download"
    /\ LET r == req[t]
           e == r.endpoint
       IN \E l \in r.todo, fate \in {"skipped", "nomatch", "stored"}, now \in Times,
             named \in BOOLEAN :
            LET id == PdfId(e, l, now)
                ids == IF fate = "stored" THEN r.ids \cup {id} ELSE r.ids
                rest == r.todo \ {l}
                r2 == [r EXCEPT !.todo = rest, !.ids = ids]
                mirrored == e = "dc" /\ fate = "stored" /\ disk.writable
                file == [name |-> DiskName(l, now, named), of |-> id]
            IN /\ e = "dc" => fate # "nomatch"
               /\ fate # "stored" => now = 0
               /\ ~mirrored => ~named
               /\ IF e = "hccl" /\ ~r.has_term /\ fate # "skipped"
                  THEN /\ Respond(t, r, InternalError(NoSearchTerm))
                       /\ UNCHANGED <<pdf_cache, disk>>
                  ELSE /\ pdf_cache' = Store(pdf_cache, id, fate)
                       /\ disk' = IF mirrored
                                  THEN [disk EXCEPT !.files =
                                           {f \in @ : f.name # file.name} \cup {file}]
                                  ELSE disk
                       /\ IF rest # {} THEN Goto(t, r2, "v_download")
                          ELSE IF e = "hccl" /\ ids = {} THEN Respond(t, r2, Success)
                          ELSE Goto(t, r2, "v_cleanup")
    /\ UNCHANGED <<registries, current_search_session, aside>>

\* register_search_session, first half: cleanup_old_session() deletes every
\* key of the live epoch from pdf_cache and resets current_search_session.
RegCleanup(t) ==
    /\ pc[t] = "v_cleanup"
    /\ pdf_cache' = pdf_cache \ current_search_session
    /\ disk' = [disk EXCEPT !.files =
                   {f \in @ : \A pdf_id \in current_search_session :
                                  ~Glob(pdf_id, f.name)}]
    /\ current_search_session' = {}
    /\ Goto(t, req[t], "v_install")
    /\ UNCHANGED <<registries, aside>>

\* register_search_session, second half: the pdf_ids found in case_data
\* become the live epoch; the handler returns its success payload.
RegInstall(t) ==
    /\ pc[t] = "v_install"
    /\ current_search_session' = req[t].ids
    /\ Respond(t, [req[t] EXCEPT !.registered = TRUE], Success)
    /\ UNCHANGED <<registries, pdf_cache, disk, aside>>

\* The thread is free for the next request.
Return(t) ==
    /\ pc[t] = "done"
    /\ pc' = [pc EXCEPT ![t] = "idle"]
    /\ req' = [req EXCEPT ![t] = NoReq]
    /\ UNCHANGED <<registries, pdf_cache, current_search_session, completed, disk, aside>>

\* ------------------------------------------------------------ /api/proxy-pdf
MinPdfLen == 1000   \* app.py:699  `len(pdf_bytes) < 1000`
MaxExtra == 1       \* downloaded bodies have at most MinPdfLen + MaxExtra bytes

\* Byte strings are sequences of byte values.
BOM == <<239, 187, 191>>                                      \* b'\xef\xbb\xbf'
PdfMagic == <<37, 80, 68, 70>>                                \* b'%PDF'
NotUploadedPhrase == <<110, 111, 116, 32, 117, 112, 108, 111, 97, 100, 101, 100>>
NoData == <<78, 111, 32, 100, 97, 116, 97>>                   \* 'No data'
BomChar == 65279                                              \* U+FEFF

\* What the portal may answer to the download: the opening bytes of the body.
\* Bytes are ASCII, the BOM triple, or 255 (which no UTF-8 text contains).
BodyHeads == {
    <<37, 80, 68, 70, 45, 49, 46, 52>>,                       \* %PDF-1.4
    BOM \o <<37, 80, 68, 70, 45, 49, 46, 52>>,                \* BOM %PDF-1.4
    BOM \o BOM \o PdfMagic,                                   \* BOM BOM %PDF
    <<60, 104, 116, 109, 108, 62, 101, 114, 114, 111, 114,
      60, 47, 104, 116, 109, 108, 62>>,                       \* <html>error</html>
    <<79, 114, 100, 101, 114, 32, 78, 111, 116, 32, 85, 112,
      108, 111, 97, 100, 101, 100>>,                          \* Order Not Uploaded
    <<110, 111, 116, 255, 32, 117, 112, 108, 111, 97, 100,
      101, 100>>,                                             \* not\xff uploaded
    <<37, 80, 68, 70, 45, 49, 46, 52, 32, 110, 111, 116, 32,
      117, 112, 108, 111, 97, 100, 101, 100>> }               \* %PDF-1.4 not uploaded

\* download_pdf_to_memory returns response.content, or None when the status is
\* not 200 or the request raised.  A body is kept as its opening bytes and its
\* length; the bytes after the opening are spaces.
Bodies ==
    {NoBody, [got |-> TRUE, head |-> <<>>, len |-> 0]}
    \cup UNION { { [got |-> TRUE, head |-> h, len |-> n] :
                    n \in {Len(h)} \cup ((MinPdfLen - 1)..(MinPdfLen + MaxExtra)) } :
                  h \in BodyHeads }

BytesOf(body) ==
    body.head \o [i \in 1..(body.len - Len(body.head)) |-> 32]

\* bytes.startswith
StartsWith(b, prefix) ==
    Len(b) >= Len(prefix) /\ SubSeq(b, 1, Len(prefix)) = prefix

\* bytes.decode('utf-8', errors='ignore'): an ASCII byte is its character, the
\* BOM triple is the one character U+FEFF, any other byte is dropped.
Decode(b) ==
    LET BomAt(i) == i >= 1 /\ i + 2 <= Len(b) /\ SubSeq(b, i, i + 2) = BOM
        char == [i \in 1..Len(b) |->
                    IF b[i] < 128 THEN b[i]
                    ELSE IF BomAt(i) THEN BomChar
                    ELSE -1]
        Kept(c) == c # -1
    IN SelectSeq(char, Kept)

\* The variant of str.lower that leaves every character as it is.
SameCase(s) == s

\* str.lower
Lower(s) == [i \in 1..Len(s) |-> IF s[i] \in 65..90 THEN s[i] + 32 ELSE s[i]]

\* str.strip()
strip(s) ==
    LET inked == {i \in 1..Len(s) : s[i] # 32}
    IN IF inked = {} THEN <<>>
       ELSE SubSeq(s, CHOOSE i \in inked : \A j \in inked : i <= j,
                      CHOOSE i \in inked : \A j \in inked : j <= i)

\* A str as the code points of its characters: the space, "#", "(" to "Z",
\* the small letters and "~".
Ord(str) ==
    LET Upto90 == "()*+,-./0123456789:;<=>?@ABCDEFGHIJKLMNOPQRSTUVWXYZ"
        From97 == "abcdefghijklmnopqrstuvwxyz"
        At(c, chars) == CHOOSE k \in 1..Len(chars) : SubSeq(chars, k, k) = c
        Code(c) == IF c = " " THEN 32
                   ELSE IF c = "#" THEN 35
                   ELSE IF c = "~" THEN 126
                   ELSE IF \E k \in 1..Len(Upto90) : SubSeq(Upto90, k, k) = c
                        THEN 39 + At(c, Upto90)
                        ELSE 96 + At(c, From97)
    IN [i \in 1..Len(str) |-> Code(SubSeq(str, i, i))]

\* `needle in haystack`
Contains(haystack, needle) ==
    \E i \in 1..(Len(haystack) - Len(needle) + 1) :
        SubSeq(haystack, i, i + Len(needle) - 1) = needle

\* The variant of the BOM removal that keeps the body as downloaded.
KeepBom(b) == b

\* app.py:726-728
StripBom(b) == IF StartsWith(b, BOM) THEN SubSeq(b, 4, Len(b)) ELSE b

\* The answers of proxy_pdf.
UrlRequired == Failure(400, "PDF URL is required")
NotUploadedYet == Failure(404, "This PDF has not been uploaded to eCourts yet. Please try again later or contact the court.")
SessionExpired == Failure(401, "Session expired. Please search again to view PDFs.")
DownloadFailed == Failure(500, "Failed to download PDF from eCourts. The file may not be available.")
NotAPdf == Failure(500, "Downloaded content is not a valid PDF file. The link may have expired or requires authentication.")
Served == [ok |-> TRUE, status |-> 200, error |-> ""]

\* proxy_pdf from the download on: the answer and the bytes served with it.
\* session_ok is `session_id and session_id in active_sessions`.
ProxyAnswer(body, session_ok) ==
    LET pdf_bytes == BytesOf(body)
    IN IF ~body.got \/ pdf_bytes = <<>> \/ Len(pdf_bytes) < MinPdfLen
       THEN LET error_msg == IF body.got /\ pdf_bytes # <<>>
                             THEN Decode(pdf_bytes) ELSE NoData
            IN [resp |-> IF Contains(Lower(error_msg), NotUploadedPhrase)
                         THEN NotUploadedYet
                         ELSE IF ~session_ok THEN SessionExpired
                         ELSE DownloadFailed,
                content |-> <<>>]
       ELSE LET stripped == StripBom(pdf_bytes)
            IN IF ~StartsWith(stripped, PdfMagic)
               THEN [resp |-> NotAPdf, content |-> <<>>]
               ELSE [resp |-> Served, content |-> stripped]

\* proxy_pdf.  The scraper stored under the key is reused, otherwise an
\* HCCauseListScraper is constructed for this one download; only that class has
\* download_pdf_to_memory, so a key of another variant ends in AttributeError.
\* The handler writes none of the dictionaries, so every call meets a state a
\* run without earlier calls also reaches: proxy_out records the first call.
ProxyPdf(pdf_url, session_id, body) ==
    /\ ~proxy_out.called
    /\ session_id \in ClientKeys
    /\ LET session_ok == Registered(session_id)
           can_download == ~session_ok
                           \/ scraper_kind[active_sessions[session_id]] = "hccl"
           call == [NoProxyCall EXCEPT !.called = TRUE, !.pdf_url = pdf_url,
                                       !.session_id = session_id,
                                       !.session_ok = session_ok]
       IN /\ ~(pdf_url /\ can_download) => body = NoBody
          /\ proxy_out' =
               IF ~pdf_url THEN [call EXCEPT !.resp = UrlRequired]
               ELSE IF ~can_download
                    THEN [call EXCEPT !.resp = InternalError(WrongScraperClass)]
               ELSE LET a == ProxyAnswer(body, session_ok)
                    IN [call EXCEPT !.downloaded = TRUE, !.body = body,
                                    !.resp = a.resp, !.content = a.content]
          /\ UNCHANGED <<registries, pdf_cache, current_search_session, pc, req, completed,
                         scraper_state, lookup_at, ocr_state, page_state, disk, text_state>>

\* ===================================================== one scraper object
\* The methods of DistrictCourtsScraper and DistrictCauseListScraper, called
\* one after another on one object.  Every method is one step: its requests,
\* the answers it reads and the value it returns.

app_state == <<registries, pdf_cache, current_search_session, pc, req, completed,
               proxy_out, lookup_at, ocr_state, html, parsed, disk, text_state>>

\* str.split(sep): the pieces between the separators, in order.
RECURSIVE split(_, _)
split(s, sep) ==
    IF \A i \in 1..Len(s) : s[i] # sep
    THEN <<s>>
    ELSE LET i == CHOOSE n \in 1..Len(s) :
                      s[n] = sep /\ \A j \in 1..(n - 1) : s[j] # sep
         IN <<SubSeq(s, 1, i - 1)>> \o split(SubSeq(s, i + 1, Len(s)), sep)

\* sep.join(parts)
RECURSIVE join(_, _)
join(parts, sep) ==
    IF parts = <<>> THEN <<>>
    ELSE IF Len(parts) = 1 THEN parts[1]
    ELSE parts[1] \o <<sep>> \o join(Tail(parts), sep)

\* Values of the court-complex dropdown, court_code@est_codes@flag, and
\* strings with fewer, more or empty fields.
ComplexCodes ==
    { join(<<<<"1">>, est, flag>>, "@") :
          est \in {<<"7", ",", "8">>, <<"7">>, <<>>},
          flag \in {<<"N">>, <<"0">>, <<"Y">>, <<>>} }
    \cup { <<>>, <<"1">>, join(<<<<"1">>, <<"7">>>>, "@"),
           join(<<<<"1">>, <<"7">>, <<"N">>, <<"Y">>>>, "@") }
EstCodes == {None, NoEstablishment, <<"7">>}
Args == [court_complex_code : ComplexCodes, est_code : EstCodes]

\* What the portal answers to one request: the HTTP status and the app_token
\* its JSON body carries (NoToken: the body has none, or is no JSON).
\* NoAnswer: the call of requests raised (timeout, connection error).
NoAnswer == [status |-> 0, app_token |-> NoToken]
Answers ==
    {NoAnswer} \cup [status : {200, 500}, app_token : {NoToken} \cup Tokens]

\* The portal's start page: the value of <input id="app_token">, NoToken when
\* the page has none, is not served with status 200, or the GET raised.
Pages == {NoToken} \cup Tokens

\* `if response.status_code == 200: result = response.json();
\*  if 'app_token' in result: self.app_token = result['app_token']`
Adopt(tok, a) ==
    IF a.status = 200 /\ a.app_token # NoToken THEN a.app_token ELSE tok

\* The last app_token the portal has put into a response.
Latest(latest, a) == IF a.app_token # NoToken THEN a.app_token ELSE latest

\* initialize_session: `if token_input: self.app_token = token_input.get('value')`
PageToken(tok, page) == IF page # NoToken THEN page ELSE tok

\* One request that carries app_token, with the status of its answer a and
\* the app_token the answer's body held.
Carry(endpoint, tok, latest, est_code, a) ==
    [endpoint |-> endpoint, app_token |-> tok, latest |-> latest, est_code |-> est_code,
     status |-> a.status, answered |-> a.app_token]

\* Return values.
Returned(method, type, items) == [method |-> method, type |-> type, items |-> items]

\* The methods that send exactly one request with app_token; checks: the
\* method begins with `if not self.app_token: self.initialize_session()`.
Methods ==
    { [class |-> "dc", name |-> "fetch_districts", checks |-> TRUE],
      [class |-> "dc", name |-> "fetch_court_complexes", checks |-> TRUE],
      [class |-> "dc", name |-> "fetch_case_types", checks |-> TRUE],
      [class |-> "dc", name |-> "get_captcha", checks |-> TRUE],
      [class |-> "dc", name |-> "download_order_pdf", checks |-> FALSE],
      [class |-> "dcl", name |-> "fetch_districts", checks |-> TRUE],
      [class |-> "dcl", name |-> "fetch_court_complexes", checks |-> FALSE],
      [class |-> "dcl", name |-> "set_data", checks |-> FALSE],
      [class |-> "dcl", name |-> "fetch_cause_list", checks |-> FALSE] }

initialize_session(page) ==
    /\ scraper_class \in {"dc", "dcl"}
    /\ app_token' = PageToken(app_token, page)
    /\ portal_token' = PageToken(portal_token, page)
    /\ requests' = <<>>
    /\ returned' = Returned("initialize_session", "bool", {})
    /\ UNCHANGED <<scraper_class, args, fields, app_state>>

\* The lookup map a method of DistrictCourtsScraper caches in the object.
Caches(m) ==
    IF m.class # "dc" THEN {}
    ELSE CASE m.name = "fetch_districts" -> {"districts"}
           [] m.name = "fetch_court_complexes" -> {"court_complexes"}
           [] m.name = "fetch_case_types" -> {"case_types"}
           [] OTHER -> {}

\* The hierarchy lookups among the methods: each returns the dictionary parsed
\* from its answer, {} on any failure.
Lookups == {"fetch_districts", "fetch_court_complexes", "fetch_case_types"}

\* A parsing that reads the option list without looking at the status.
OptionsUnchecked(a, found) ==
    IF found THEN {<<<<"text">>, <<"value">>>>} ELSE {}

\* The dictionary parsed from the <option> list of an answer.
Options(a, found) ==
    IF a.status = 200 /\ found THEN {<<<<"text">>, <<"value">>>>} ELSE {}

\* listed: the answer's JSON carries the option list of the lookup.
call(m, page, a, listed) ==
    /\ scraper_class = m.class
    /\ listed => a.status = 200 /\ m.name \in Lookups
    /\ fields' = IF listed THEN [fields EXCEPT !.cached = @ \cup Caches(m)] ELSE fields
    /\ LET init == m.checks /\ app_token = NoToken
           tok == IF init THEN PageToken(app_token, page) ELSE app_token
           latest == IF init THEN PageToken(portal_token, page) ELSE portal_token
       IN /\ ~init => page = NoToken
          /\ requests' = <<Carry(m.name, tok, latest, <<>>, a)>>
          /\ app_token' = Adopt(tok, a)
          /\ portal_token' = Latest(latest, a)
    /\ returned' = IF m.name \in Lookups THEN Returned(m.name, "dict", Options(a, listed))
                   ELSE Returned(m.name, "unread", {})
    /\ UNCHANGED <<scraper_class, args, app_state>>

\* DistrictCauseListScraper.get_captcha: the image is fetched with a GET that
\* carries no app_token.
get_captcha(page) ==
    /\ scraper_class = "dcl"
    /\ app_token # NoToken => page = NoToken
    /\ app_token' = IF app_token = NoToken THEN PageToken(app_token, page) ELSE app_token
    /\ portal_token' = IF app_token = NoToken THEN PageToken(portal_token, page)
                       ELSE portal_token
    /\ requests' = <<>>
    /\ returned' = Returned("get_captcha", "unread", {})
    /\ UNCHANGED <<scraper_class, args, fields, app_state>>

\* Where the record that DistrictCourtsScraper.search_case returns was built
\* from: parse_case_history of the viewHistory answer, or
\* parse_basic_case_data of the submitCaseNo answer.
FromHistory == {<<<<"source">>, <<"viewHistory">>>>}
FromSearch == {<<<<"source">>, <<"submitCaseNo">>>>}

\* get_case_history(search_result), after the viewHistory answer a2 arrived.
\*   detail: the body has status 1 with data_list ("history"), status 1
\*   without data_list ("raw"), another status ("failed"), or is no JSON
\*   ("notjson": response.json() raises).
HistoryRecord(a2, detail) ==
    IF a2.status = 200
    THEN IF detail = "notjson" THEN Returned("search_case", "None", {})
         ELSE IF detail \in {"history", "raw"}
              THEN Returned("search_case", "dict", FromHistory)
              ELSE Returned("search_case", "dict", FromSearch)
    ELSE IF a2 = NoAnswer THEN Returned("search_case", "None", {})
         ELSE Returned("search_case", "dict", FromSearch)

\* DistrictCourtsScraper.search_case, with the get_case_history it calls.
\*   hit: the submitCaseNo answer has status 1
\*   locator: its case_data is missing ("missing"), has no usable viewHistory
\*   link ("nolink"), or has one ("link")
search_case(page, a1, hit, locator, a2, detail) ==
    /\ scraper_class = "dc"
    /\ LET init == app_token = NoToken
           tok == IF init THEN PageToken(app_token, page) ELSE app_token
           latest == IF init THEN PageToken(portal_token, page) ELSE portal_token
           found == a1.status = 200 /\ hit
           second == found /\ locator = "link"
           tok1 == Adopt(tok, a1)
           latest1 == Latest(latest, a1)
           r1 == Carry("submitCaseNo", tok, latest, <<>>, a1)
           r2 == Carry("viewHistory", tok1, latest1, <<>>, a2)
       IN /\ ~init => page = NoToken
          /\ ~found => ~hit /\ locator = "missing"
          /\ ~second => a2 = NoAnswer /\ detail = "failed"
          /\ detail = "notjson" => a2.app_token = NoToken
          /\ requests' = IF second THEN <<r1, r2>> ELSE <<r1>>
          /\ app_token' = IF second THEN Adopt(tok1, a2) ELSE tok1
          /\ portal_token' = IF second THEN Latest(latest1, a2) ELSE latest1
          /\ returned' =
               IF ~found \/ locator = "missing" THEN Returned("search_case", "None", {})
               ELSE IF locator = "nolink" THEN Returned("search_case", "dict", FromSearch)
               ELSE HistoryRecord(a2, detail)
    /\ UNCHANGED <<scraper_class, args, fields, app_state>>

\* `flag = court_arr[2] if len(court_arr) > 2 else 'Y'`
Flag(court_arr) == IF Len(court_arr) > 2 THEN court_arr[3] ELSE <<"Y">>

\* `if flag == 'N' or flag == '0'`: the complex has no establishment dropdown.
NoDropdown(flag) == flag = <<"N">> \/ flag = <<"0">>

\* A fetch_judges that passes est_code on as it was given.
EstCodeAsGiven(court_arr, est_code) == est_code

\* fetch_judges: `est_code_to_use`
EstCodeToUse(court_arr, est_code) ==
    IF est_code = None \/ est_code = NoEstablishment
    THEN IF Len(court_arr) > 1 THEN court_arr[2] ELSE <<>>
    ELSE est_code

\* fetch_judges: `set_data_est_code`
SetDataEstCode(flag, est_code_to_use) ==
    IF NoDropdown(flag) THEN <<>> ELSE est_code_to_use

\* DistrictCauseListScraper.fetch_establishments(court_complex_code)
fetch_establishments(a, found) ==
    /\ scraper_class = "dcl"
    /\ LET court_arr == split(args.court_complex_code, "@")
       IN IF NoDropdown(Flag(court_arr))
          THEN /\ a = NoAnswer /\ ~found
               /\ requests' = <<>>
               /\ returned' = Returned("fetch_establishments", "dict",
                                  {<<NoEstablishment,
                                     IF Len(court_arr) > 1 THEN court_arr[2] ELSE <<"0">>>>})
               /\ UNCHANGED <<app_token, portal_token>>
          ELSE /\ requests' = <<Carry("fillCourtEstablishment", app_token, portal_token, <<>>,
                                      a)>>
               /\ app_token' = Adopt(app_token, a)
               /\ portal_token' = Latest(portal_token, a)
               /\ returned' = Returned("fetch_establishments", "dict", Options(a, found))
    /\ UNCHANGED <<scraper_class, args, fields, app_state>>

\* DistrictCauseListScraper.fetch_judges(court_complex_code, est_code): the
\* set_data request, then the judge-list request fillCauseList.
fetch_judges(a1, a2, found) ==
    /\ scraper_class = "dcl"
    /\ LET court_arr == split(args.court_complex_code, "@")
           est_code_to_use == EstCodeToUse(court_arr, args.est_code)
           r1 == Carry("set_data", app_token, portal_token,
                       SetDataEstCode(Flag(court_arr), est_code_to_use), a1)
           tok1 == Adopt(app_token, a1)
           latest1 == Latest(portal_token, a1)
           r2 == Carry("fillCauseList", tok1, latest1, est_code_to_use, a2)
       IN /\ requests' = <<r1, r2>>
          /\ app_token' = Adopt(tok1, a2)
          /\ portal_token' = Latest(latest1, a2)
          /\ returned' = Returned("fetch_judges", "dict", Options(a2, found))
    /\ UNCHANGED <<scraper_class, args, fields, app_state>>

\* One scraper object of either class and the arguments the client sends with
\* its hierarchy requests.
InitScraper ==
    /\ InitApp
    /\ disk = HostedDisk
    /\ scraper_class \in {"dc", "dcl"}
    /\ args \in Args
    /\ scraper_class = "dc" => args = CHOOSE x \in Args : TRUE
    /\ image = NoImage
    /\ html = NoHtml

NextScraper ==
    \/ \E page \in Pages : initialize_session(page)
    \/ \E m \in Methods, page \in Pages, a \in Answers, listed \in BOOLEAN :
           call(m, page, a, listed)
    \/ \E page \in Pages : get_captcha(page)
    \/ \E page \in Pages, a1 \in Answers, hit \in BOOLEAN,
          locator \in {"missing", "nolink", "link"}, a2 \in Answers,
          detail \in {"history", "raw", "failed", "notjson"} :
           search_case(page, a1, hit, locator, a2, detail)
    \/ \E a \in Answers, found \in BOOLEAN : fetch_establishments(a, found)
    \/ \E a1 \in Answers, a2 \in Answers, found \in BOOLEAN : fetch_judges(a1, a2, found)

SpecScraper == InitScraper /\ [][NextScraper]_vars

\* ------------------------------------------------------ cause-list fragments
\* Cause-list fragments: a table with a header, a case row and rows that are
\* dropped; divs; plain text (tag "text": a line outside every table and
\* div); a table whose rows are all dropped.
CauseLists ==
    LET T(text) == Td(text, NoLink, NoLink, <<>>)
    IN { << El("table", "", << <<T("Sr No"), T("Case Number"), T("Party")>>,
                               <<T("1"), T("CS/12/2020"), T("Ram vs State")>>,
                               <<T("2"), T("CS/1")>>,
                               <<T("case list of the day")>>,
                               <<T("court"), T("room number 4")>> >>, "") >>,
         << El("table", "", << <<T("Sr No"), T("Case Number")>> >>, ""),
            El("div", "case-item", <<>>, "CS/12/2020 Ram vs State"),
            El("div", "entry", <<>>, "short"),
            El("div", "footer", <<>>, "Printed on 01-01-2020") >>,
         << El("text", "", <<>>, "1. CS/12/2020 Ram"), El("text", "", <<>>, "vs State"),
            El("text", "", <<>>, "CRL/5/2021"), El("text", "", <<>>, ""),
            El("text", "", <<>>, "2) MA/7") >>,
         << El("table", "", << <<T("Sr No"), T("Case Number")>> >>, ""),
            El("text", "", <<>>, "List of the day"),
            El("text", "", <<>>, "CS/12/2020 Ram vs State") >> }

\* sep.join(texts) on strings
RECURSIVE JoinText(_, _)
JoinText(texts, sep) ==
    IF texts = <<>> THEN ""
    ELSE IF Len(texts) = 1 THEN texts[1]
    ELSE texts[1] \o sep \o JoinText(Tail(texts), sep)

\* re.match(r'^(Sr\.?|S\.No|Serial|Case|Court)', full_text, re.IGNORECASE),
\* the prefixes in the letter cases of the fragments.
IsHeader(full_text) ==
    \E p \in {"Sr", "sr", "SR", "S.No", "s.no", "S.NO", "Serial", "serial", "SERIAL",
              "Case", "case", "CASE", "Court", "court", "COURT"} :
        Len(full_text) >= Len(p) /\ SubSeq(full_text, 1, Len(p)) = p

\* re.match(r'^\d+[\.\)]\s+', line) or re.match(r'^[A-Z]+[/\d\-]+', line)
NewEntry(line) ==
    LET Digits == {"0", "1", "2", "3", "4", "5", "6", "7", "8", "9"}
        Capitals == {"A", "B", "C", "D", "E", "F", "G", "H", "I", "J", "K", "L", "M",
                     "N", "O", "P", "Q", "R", "S", "T", "U", "V", "W", "X", "Y", "Z"}
        \* the length of the longest prefix of the line with characters of set
        Run(set) == Cardinality({n \in 1..Len(line) :
                                    \A j \in 1..n : SubSeq(line, j, j) \in set})
        d == Run(Digits)
        c == Run(Capitals)
    IN \/ /\ d >= 1
          /\ Len(line) >= d + 2
          /\ SubSeq(line, d + 1, d + 1) \in {".", ")"}
          /\ SubSeq(line, d + 2, d + 2) = " "
       \/ /\ c >= 1
          /\ Len(line) >= c + 1
          /\ SubSeq(line, c + 1, c + 1) \in Digits \cup {"/", "-"}

\* The plain-text strategy over the lines of soup.get_text(); current_case:
\* the lines collected for the entry that is open.
RECURSIVE TextCases(_, _)
TextCases(lines, current_case) ==
    LET full_text == JoinText(current_case, " ")
        closed == IF current_case # <<>> /\ Len(full_text) > 10
                  THEN <<[serial_no |-> "", case_details |-> full_text,
                          full_text |-> full_text]>>
                  ELSE <<>>
    IN IF lines = <<>> THEN closed
       ELSE IF Head(lines) = "" THEN TextCases(Tail(lines), current_case)
       ELSE IF NewEntry(Head(lines))
            THEN closed \o TextCases(Tail(lines), <<Head(lines)>>)
            ELSE TextCases(Tail(lines), Append(current_case, Head(lines)))

\* DistrictCauseListScraper.parse_cause_list_html(html): the rows of the
\* tables, else the divs, else the plain text (of a fragment that has each
\* text node on a line of its own).
ParseCauseListHtml(page) ==
    LET TextsOf(cells) == [i \in 1..Len(cells) |-> cells[i].text]
        tables == SelectSeq(page, LAMBDA el : el.tag = "table")
        rows == SelectSeq(Flatten([i \in 1..Len(tables) |-> tables[i].rows]),
                          LAMBDA cells :
                              /\ Len(cells) >= 2
                              /\ Len(JoinText(TextsOf(cells), "")) > 10
                              /\ ~IsHeader(JoinText(TextsOf(cells), "")))
        divs == SelectSeq(page, LAMBDA el :
                    /\ el.tag = "div"
                    /\ \E p \in {"case", "item", "entry"} :
                          \E i \in 1..(Len(el.class) - Len(p) + 1) :
                              SubSeq(el.class, i, i + Len(p) - 1) = p
                    /\ Len(el.text) > 10)
        lines == Flatten([i \in 1..Len(page) |->
                             IF page[i].tag = "table" THEN TextsOf(Flatten(page[i].rows))
                             ELSE <<page[i].text>>])
    IN IF rows # <<>>
       THEN [i \in 1..Len(rows) |->
                [serial_no |-> rows[i][1].text,
                 case_details |-> JoinText(Tail(TextsOf(rows[i])), " | "),
                 full_text |-> JoinText(TextsOf(rows[i]), "")]]
       ELSE IF divs # <<>>
            THEN [i \in 1..Len(divs) |->
                     [serial_no |-> "", case_details |-> divs[i].text,
                      full_text |-> divs[i].text]]
            ELSE TextCases(lines, <<>>)

\* ----------------------------------------------------------- parser calls
MaxParses == 2

\* The fragments the parsers of a scraper class are called with.
ParserInputs(class) ==
    CASE class = "dcl" -> CauseLists
      [] class = "dc" -> {DcTables}
      [] class = "hc" -> {HcTables, Lacking(HcTables, {"order_table", "table_r"})}

\* The parsers of each scraper class and what they return for the page.
ParserResult(class, parser, page, f) ==
    CASE class = "hc" /\ parser = "parse_case_history" -> <<HcParseCaseHistory(page, f)>>
      [] class = "dc" /\ parser = "parse_case_history" -> <<DcParseCaseHistory(page)>>
      [] class = "dcl" /\ parser = "parse_cause_list_html" -> <<ParseCauseListHtml(page)>>
      [] OTHER -> <<>>

\* One call scraper.<parser>(html).  parsed keeps what each call returned and
\* whether the call before it on the scraper was a lookup.
parse(parser) ==
    /\ ParserResult(scraper_class, parser, html, fields) # <<>>
    /\ Len(parsed[parser]) < MaxParses
    /\ LET result == ParserResult(scraper_class, parser, html, fields)[1]
       IN /\ returned' = Returned(parser, "parsed", {result})
          /\ parsed' = [parsed EXCEPT ![parser] =
                            Append(@, [record |-> result,
                                       after_lookup |->
                                           returned.method \notin Parsers \cup {"none"}])]
    /\ UNCHANGED <<scraper_class, args, app_token, portal_token, requests, fields,
                   registries, pdf_cache, current_search_session, pc, req, completed,
                   proxy_out, lookup_at, ocr_state, html, disk, text_state>>

\* search_high_court, after the constructor: court_code, state_code and
\* current_court_name are assigned from the request.
select_court ==
    /\ scraper_class = "hc"
    /\ returned = NoReturn
    /\ fields = InitFields
    /\ fields' = RequestedCourt
    /\ UNCHANGED <<scraper_class, args, app_token, portal_token, requests, returned,
                   app_state>>

\* HCServicesCompleteScraper.fetch_court_complexes
fetch_court_complexes ==
    /\ scraper_class = "hc"
    /\ fields' = [fields EXCEPT !.court_complex_code = "1"]
    /\ returned' = Returned("fetch_court_complexes", "None", {})
    /\ UNCHANGED <<scraper_class, args, app_token, portal_token, requests, app_state>>

\* A get_case_types that also falls back to the default court.
CaseTypesAndCourt(f) ==
    [f EXCEPT !.cached = @ \cup {"available_case_types"}, !.court_code = "1",
              !.current_court_name = "Delhi High Court"]

\* get_case_types stores the parsed case types or the default ones.
CaseTypesLoaded(f) == [f EXCEPT !.cached = @ \cup {"available_case_types"}]

\* The parsed_types get_case_types builds from the text of an answer,
\* "code~name#code~name#...": the dict is empty when the text has no "#" or
\* no "~" or no usable item.
ParsedCaseTypes(text) ==
    LET response_text == strip(text)
        Has(str, c) == \E i \in 1..Len(str) : str[i] = c
        First(str, c) == CHOOSE i \in 1..Len(str) :
                             str[i] = c /\ \A j \in 1..(i - 1) : str[j] # c
        Last(str, c) == CHOOSE i \in 1..Len(str) :
                            str[i] = c /\ \A j \in (i + 1)..Len(str) : str[j] # c
        \* 'Remove trailing -CODE if present'
        Trimmed(name_part, code) ==
            IF /\ Has(name_part, 45)
               /\ strip(SubSeq(name_part, Last(name_part, 45) + 1, Len(name_part))) = code
            THEN strip(SubSeq(name_part, 1, Last(name_part, 45) - 1))
            ELSE name_part
        Entry(item) ==
            IF item = <<>> \/ ~Has(item, 126) THEN <<>>
            ELSE LET code == strip(SubSeq(item, 1, First(item, 126) - 1))
                     name_part == strip(SubSeq(item, First(item, 126) + 1, Len(item)))
                 IN IF code = Ord("0") \/ Contains(Lower(name_part), Ord("select"))
                    THEN <<>>
                    ELSE IF code # <<>> /\ Trimmed(name_part, code) # <<>>
                    THEN <<<<code, Trimmed(name_part, code)>>>>
                    ELSE <<>>
        items == split(response_text, 35)
    IN IF Has(response_text, 35) /\ Has(response_text, 126)
       THEN Dict(Flatten([i \in 1..Len(items) |-> Entry(strip(items[i]))]))
       ELSE <<>>

\* A scraper without built-in case types.
NoCaseTypes == <<>>

\* default_case_types
DefaultCaseTypes ==
    Dict(<< <<Ord("1"), Ord("Civil Appeal")>>,
            <<Ord("2"), Ord("Civil Revision")>>,
            <<Ord("3"), Ord("Civil Writ Petition")>>,
            <<Ord("4"), Ord("Criminal Appeal")>>,
            <<Ord("5"), Ord("Criminal Revision")>>,
            <<Ord("6"), Ord("Criminal Writ Petition")>>,
            <<Ord("7"), Ord("Company Petition")>>,
            <<Ord("8"), Ord("Arbitration Petition")>>,
            <<Ord("9"), Ord("Contempt Petition")>>,
            <<Ord("10"), Ord("Matrimonial Appeal")>>,
            <<Ord("50"), Ord("Special Leave Petition (Civil)")>>,
            <<Ord("51"), Ord("Special Leave Petition (Criminal)")>>,
            <<Ord("83"), Ord("ARB.A. (Arbitration Appeal)")>>,
            <<Ord("100"), Ord("PIL (Public Interest Litigation)")>>,
            <<Ord("102"), Ord("ARB. A. (COMM.)")>>,
            <<Ord("134"), Ord("W.P.(C) - Writ Petition (Civil)")>>,
            <<Ord("135"), Ord("W.P.(CRL) - Writ Petition (Criminal)")>>,
            <<Ord("136"), Ord("Crl.A. - Criminal Appeal")>>,
            <<Ord("137"), Ord("C.R.P. - Civil Revision Petition")>>,
            <<Ord("138"), Ord("FAO - First Appeal from Order")>>,
            <<Ord("139"), Ord("RFA - Regular First Appeal")>>,
            <<Ord("140"), Ord("CS - Civil Suit")>>,
            <<Ord("141"), Ord("Execution Petition")>>,
            <<Ord("142"), Ord("Bail Application")>> >>)

\* HCServicesCompleteScraper.get_case_types.  The portal's answer to
\* fillCaseType is a status and a text; status 0: the POST raised (timeout,
\* connection error), which the bare `except` swallows.
get_case_types ==
    /\ scraper_class = "hc"
    /\ \E status \in {0, 200, 500},
          text \in {"", "no case types", "0~Select Case Type#",
                    "0~Select Case Type#134~W.P.(C)-134#83~ARB.A. (COMM.)",
                    " 7 ~ CP - 7 # ~x#5#~#8~-8#7~Company Petition "} :
         LET parsed_types == IF status = 200 THEN ParsedCaseTypes(Ord(text)) ELSE <<>>
             types == IF parsed_types # <<>> THEN parsed_types ELSE DefaultCaseTypes
         IN /\ fields' = [CaseTypesLoaded(fields) EXCEPT !.available_case_types = types]
            /\ returned' = Returned("get_case_types", "dict", types)
    /\ UNCHANGED <<scraper_class, args, app_token, portal_token, requests, app_state>>

\* One scraper object of any of the three classes and one fragment.
InitParse ==
    /\ InitApp
    /\ disk = HostedDisk
    /\ scraper_class \in {"hc", "dc", "dcl"}
    /\ args = CHOOSE x \in Args : TRUE
    /\ image = NoImage
    /\ html \in ParserInputs(scraper_class)

NextParse ==
    \/ \E parser \in Parsers : parse(parser)
    \/ select_court
    \/ fetch_court_complexes
    \/ get_case_types
    \/ \E page \in Pages : initialize_session(page)
    \/ \E m \in Methods, page \in Pages, a \in Answers, listed \in BOOLEAN :
           call(m, page, a, listed)

SpecParse == InitParse /\ [][NextParse]_vars

\* ------------------------------------------------- label and value tables
\* History pages of the District Court portal whose case_details_table and
\* case_status_table hold two rows each: rows of one to five cells, with and
\* without text in a label or a value, and rows that repeat a label.
KeyValuePages ==
    LET T(text) == Td(text, NoLink, NoLink, <<>>)
        Rows == { <<T("Case Type"), T("CS")>>,
                  <<T("Case Type"), T("Civil Suit")>>,
                  <<T("Filing Number"), T("12/2020"), T("Filing Date"), T("01-01-2020")>>,
                  <<T("Case Stage"), T("Evidence"), T("Case Stage"), T("Orders")>>,
                  <<T("Case Stage"), T("Evidence"), T("Court Number"), T("")>>,
                  <<T(""), T("12/2020"), T("Case Type"), T("CS")>>,
                  <<T("CNR Number"), T("")>>,
                  <<T(""), T("CS")>>,
                  <<T("Registration")>>,
                  <<T("Filing Number"), T("12/2020"), T("Filing Date")>>,
                  <<T("Filing Number"), T("12/2020"), T("Filing Date"), T("01-01-2020"),
                    T("CNR Number")>> }
    IN { << El("table", "case_details_table", <<first, second>>, ""),
            El("table", "case_status_table", <<second, first>>, "") >> :
           first \in Rows, second \in Rows }

\* A DistrictCourtsScraper and the page its parse_case_history is called with.
InitTables ==
    /\ InitApp
    /\ disk = HostedDisk
    /\ scraper_class = "dc"
    /\ args = CHOOSE x \in Args : TRUE
    /\ image = NoImage
    /\ html \in KeyValuePages

SpecTables == InitTables /\ [][parse("parse_case_history")]_vars

\* The label and value pairs of the rows of a table, as <<row, cell>>
\* positions of their labels: both cells of a row of two, the first two and
\* the last two cells of a row of four, when neither text is empty.
PairsAt(rows) ==
    { p \in (1..Len(rows)) \X {1, 3} :
        /\ (Len(rows[p[1]]) = 2 /\ p[2] = 1) \/ Len(rows[p[1]]) = 4
        /\ rows[p[1]][p[2]].text # ""
        /\ rows[p[1]][p[2] + 1].text # "" }

\* The tables of the page with the mapping the record has for each.
KeyValueTables ==
    { [rows |-> find(html, "table", "case_details_table").rows,
       map |-> parsed["parse_case_history"][i].record.case_details] :
          i \in 1..Len(parsed["parse_case_history"]) }
    \cup
    { [rows |-> find(html, "table", "case_status_table").rows,
       map |-> parsed["parse_case_history"][i].record.case_status] :
          i \in 1..Len(parsed["parse_case_history"]) }

\* C37: case_details and case_status map the label of every pair to the
\* value of that pair, and have no other label.
C37_EveryPairIsRecorded ==
    \A t \in KeyValueTables :
        /\ \A p \in PairsAt(t.rows) :
               /\ t.rows[p[1]][p[2]].text \in DOMAIN t.map
               /\ t.map[t.rows[p[1]][p[2]].text] = t.rows[p[1]][p[2] + 1].text
        /\ \A k \in DOMAIN t.map : \E p \in PairsAt(t.rows) : t.rows[p[1]][p[2]].text = k

\* C37, amended: case_details and case_status map the label of every pair to
\* the value of the last pair with that label (rows in order, the left pair
\* of a row before the right one), and have no other label.
C37_LastPairOfALabelIsRecorded ==
    \A t \in KeyValueTables :
        /\ \A p \in PairsAt(t.rows) :
               /\ t.rows[p[1]][p[2]].text \in DOMAIN t.map
               /\ \/ t.map[t.rows[p[1]][p[2]].text] = t.rows[p[1]][p[2] + 1].text
                  \/ \E q \in PairsAt(t.rows) :
                         /\ t.rows[q[1]][q[2]].text = t.rows[p[1]][p[2]].text
                         /\ (q[1] > p[1]) \/ (q[1] = p[1] /\ q[2] > p[2])
        /\ \A k \in DOMAIN t.map : \E p \in PairsAt(t.rows) : t.rows[p[1]][p[2]].text = k

\* A page that repeats a label within one row and has a row of one cell.
C37_Witness ==
    /\ scraper_class = "dc"
    /\ Len(parsed["parse_case_history"]) >= 1
    /\ Len(find(html, "table", "case_details_table").rows[1]) = 4
    /\ Len(find(html, "table", "case_details_table").rows[2]) = 1
    /\ parsed["parse_case_history"][1].record.case_details
           = Dict(<<<<"Case Stage", "Orders">>>>)
    /\ DOMAIN parsed["parse_case_history"][1].record.case_status = {"Case Stage"}

\* C38: in the record of a District Court history page, every line of a
\* petitioner or respondent cell that has a name followed by "Advocate" and
\* the advocate's name has an entry with that name and that advocate, and no
\* entry's name holds the word "Advocate".
C38_AdvocateSplitFromName ==
    \A n \in 1..Len(parsed["parse_case_history"]) :
        scraper_class = "dc" =>
            LET record == parsed["parse_case_history"][n].record
                Lines(class) ==
                    LET cells == Flatten(find(html, "table", class).rows)
                    IN Flatten([i \in 1..Len(cells) |-> cells[i].parts])
                \* the position of "Advocate" in a line with a name before it
                \* and an advocate after it; 0 in any other line
                Suffix(line) ==
                    IF \E i \in 2..(Len(line) - 1) : line[i] = "Advocate"
                    THEN CHOOSE i \in 2..(Len(line) - 1) : line[i] = "Advocate"
                    ELSE 0
                Split(entries, lines) ==
                    /\ \A j \in 1..Len(lines) :
                           Suffix(lines[j]) # 0 =>
                               \E i \in 1..Len(entries) :
                                   /\ entries[i].name
                                          = SubSeq(lines[j], 2, Suffix(lines[j]) - 1)
                                   /\ "advocate" \in DOMAIN entries[i]
                                   /\ entries[i].advocate
                                          = SubSeq(lines[j], Suffix(lines[j]) + 1,
                                                   Len(lines[j]))
                    /\ \A i \in 1..Len(entries) :
                           \A w \in 1..Len(entries[i].name) :
                               entries[i].name[w] # "Advocate"
            IN /\ Split(record.parties.petitioners, Lines("Petitioner_Advocate_table"))
               /\ Split(record.parties.respondents, Lines("Respondent_Advocate_table"))

\* ========================================================= captcha_ocr.py
\* Characters are code points.  What the reader can find in an image: a, Z,
\* 7 and '-'.
OcrChars == {97, 90, 55, 45}
MaxFragLen == 1
MaxFragments == 2

\* Image bytes: PIL can decode them or not; fragments: the texts of the
\* (bbox, text, confidence) triples reader.readtext finds in a decodable image.
Images ==
    LET Texts == UNION { [1..n -> OcrChars] : n \in 0..MaxFragLen }
    IN {NoImage} \cup [decodable : {TRUE},
                       fragments : UNION { [1..n -> Texts] : n \in 0..MaxFragments }]

\* A cleaning that only strips the surrounding whitespace.
strip_only(text) == strip(text)

\* clean_captcha_text: strip, lower, remove everything outside [a-z0-9]
clean_captcha_text(text) ==
    SelectSeq(Lower(strip(text)), LAMBDA c : c \in 97..122 \/ c \in 48..57)

\* A get_reader that tries to create the reader again after a failure.
get_reader_again(rd, init_ok) ==
    IF rd = "Reader" THEN rd ELSE IF init_ok THEN "Reader" ELSE "False"

\* get_reader: the value of _reader after the call.  The reader is created
\* when _reader is None; a failed creation sets _reader = False.
get_reader(rd, init_ok) ==
    IF rd = "None" THEN (IF init_ok THEN "Reader" ELSE "False") ELSE rd

\* detect_captcha_text(image_bytes).  faults: the steps that raise when they
\* are reached.  preprocess_captcha_image catches its own exception and
\* returns the image it was given; every other exception ends the call in the
\* `except Exception` that returns "".
detect_captcha_text(faults) ==
    /\ "reader" \in faults => reader = "None"
    /\ LET rd == get_reader(reader, "reader" \notin faults)
           no_reader == rd # "Reader"
           no_image == ~no_reader /\ (~image.decodable \/ "decode" \in faults)
           opened == ~no_reader /\ ~no_image
           no_preprocess == opened /\ "preprocess" \in faults
           no_png == opened /\ "save" \in faults
           no_text == opened /\ ~no_png /\ "readtext" \in faults
           failed == (IF no_reader THEN {"reader"} ELSE {})
                     \cup (IF no_image THEN {"decode"} ELSE {})
                     \cup (IF no_preprocess THEN {"preprocess"} ELSE {})
                     \cup (IF no_png THEN {"save"} ELSE {})
                     \cup (IF no_text THEN {"readtext"} ELSE {})
           text == IF no_reader \/ no_image \/ no_png \/ no_text THEN <<>>
                   ELSE clean_captcha_text(join(image.fragments, 32))
       IN /\ reader' = rd
          /\ guess' = [called |-> TRUE, raised |-> FALSE, text |-> text,
                       failed |-> failed, reader_before |-> reader]
    /\ UNCHANGED <<image, registries, pdf_cache, current_search_session, pc, req, completed,
                   proxy_out, lookup_at, scraper_state, page_state, disk, text_state>>

\* is_easyocr_available(): get_reader() is not None
is_easyocr_available(init_ok) ==
    /\ reader' = get_reader(reader, init_ok)
    /\ UNCHANGED <<image, guess, registries, pdf_cache, current_search_session, pc, req,
                   completed, proxy_out, lookup_at, scraper_state, page_state, disk, text_state>>

InitOcr ==
    /\ InitApp
    /\ disk = HostedDisk
    /\ scraper_class = "none"
    /\ args = NoArgs
    /\ image \in Images
    /\ html = NoHtml

NextOcr ==
    \/ \E faults \in SUBSET {"reader", "decode", "preprocess", "save", "readtext"} :
           detect_captcha_text(faults)
    \/ \E init_ok \in BOOLEAN : is_easyocr_available(init_ok)

SpecOcr == InitOcr /\ [][NextOcr]_vars

\* ---- CauseListScraper.search_case_in_text ----

\* One iteration of the outer loop, on line `at` of the lines text.split('\n')
\* yields: whether the line holds search_term, and the indices the backtrack
\* and the forward scan from it stop at.  Line indices are the code's
\* (from 0).
ScanLine(search_term, lines, is_party_name, at) ==
    LET n == Len(lines)
        line(i) == lines[i + 1]
        Upper(s) == [c \in 1..Len(s) |-> IF s[c] \in 97..122 THEN s[c] - 32 ELSE s[c]]
        \* re.sub(r'[^\w\d]', '', s).upper()
        Clean(s) == Upper(SelectSeq(s, LAMBDA c :
                        c \in 48..57 \/ c \in 65..90 \/ c \in 97..122 \/ c = 95))
        Found(i) ==
            IF is_party_name THEN Contains(Lower(line(i)), Lower(search_term))
            ELSE \/ Contains(Clean(line(i)), Clean(search_term))
                 \/ Contains(Upper(line(i)), Upper(search_term))
        \* the length of the run of digits s begins with
        d(s) == Cardinality({m \in 1..Len(s) : \A c \in 1..m : s[c] \in 48..57})
        Dot(s) == Len(s) > d(s) /\ s[d(s) + 1] \in {46, 41}
        \* ^\d+[\.\)]\s{least,}[A-Z]
        Numbered(s, least) ==
            /\ d(s) >= 1 /\ Dot(s)
            /\ \E c \in (d(s) + 2 + least)..Len(s) :
                   /\ s[c] \in 65..90
                   /\ \A b \in (d(s) + 2)..(c - 1) : s[b] = 32
        \* ^Sr\.|^S\.No|^Serial and the section words, re.IGNORECASE
        Begins(s, words) == \E w \in words : StartsWith(Lower(s), Ord(w))
        \* the backtrack breaks before line j - 1 (prev_line)
        BreakAt(j) ==
            LET prev_line == strip(line(j - 1))
            IN \/ d(prev_line) >= 1 /\ Dot(prev_line) /\ Len(prev_line) = d(prev_line) + 1
               \/ Begins(prev_line, {"sr.", "s.no", "serial"})
               \/ prev_line = <<>> /\ j > 1 /\ strip(line(j - 2)) = <<>>
               \/ Numbered(prev_line, 1)
        Start(i) == CHOOSE j \in 0..i :
                        /\ j = 0 \/ BreakAt(j)
                        /\ \A h \in (j + 1)..i : ~BreakAt(h)
        \* the forward scan from the matched line i breaks at line e (next_line)
        StopAt(e, i) ==
            LET next_line == strip(line(e))
                rest == SubSeq(next_line, d(next_line) + 2, Len(next_line))
            IN \/ Numbered(next_line, 0)
               \/ /\ d(next_line) >= 1
                  /\ \/ Len(next_line) = d(next_line)
                     \/ Dot(next_line) /\ Len(next_line) = d(next_line) + 1
               \/ next_line = <<>> /\ e - 1 > i /\ strip(line(e - 1)) = <<>>
               \/ Begins(next_line, {"orders", "admission", "motion", "final", "regular",
                                     "preliminary", "miscellaneous", "sr.", "s.no",
                                     "serial", "item"})
               \/ /\ d(next_line) >= 1 /\ Len(next_line) > d(next_line)
                  /\ next_line[d(next_line) + 1] = 47
                  /\ rest # <<>> /\ d(rest) = Len(rest)
        End(i) == CHOOSE e \in (i + 1)..n :
                      /\ e = n \/ StopAt(e, i)
                      /\ \A h \in (i + 1)..(e - 1) : ~StopAt(h, i)
    IN [found |-> Found(at), case_start |-> Start(at), case_end |-> End(at)]

\* A scan that resumes on the last line of the entry it matched.
resume_in_entry(i, found, case_end) == IF found THEN case_end - 1 ELSE i + 1

\* The index the scan goes on from: `i = case_end` after a match, `i += 1`
\* otherwise.
advance(i, found, case_end) == IF found THEN case_end ELSE i + 1

\* The matches of search_term in lines: a match's line_number and start_line
\* count from 1 and end_line is the index the forward scan stopped at.
search_case_in_text(search_term, lines, is_party_name) ==
    LET RECURSIVE Scan(_)
        Scan(i) ==
            IF i >= Len(lines) THEN <<>>
            ELSE LET line == ScanLine(search_term, lines, is_party_name, i)
                 IN (IF line.found
                     THEN <<[line_number |-> i + 1, start_line |-> line.case_start + 1,
                             end_line |-> line.case_end]>>
                     ELSE <<>>)
                    \o Scan(advance(i, line.found, line.case_end))
    IN Scan(0)

\* One call of search_case_in_text on the text of a cause-list PDF: two
\* entries with two blank lines between them, and a term a client searches
\* them for.
SearchCaseInText ==
    LET FirstEntries ==
            { <<"1. WP/123/2020", "Ram vs State">>,
              <<"1.", "CS 1-2-2020", "Ram vs State of Delhi">>,
              <<"Sr. No. 1", "Board 45 of 620/21", "Ram vs State">>,
              <<"ADMISSION MATTERS", "1) WP 123 2020 Ram vs State">>,
              <<"WP/123/2020", "", "Ram vs State">> }
        SecondEntries ==
            { <<"2. WP/456/2021", "Sita vs Board">>,
              <<"2.", "CS 12/2020", "Sita vs Board">>,
              <<"2. WP/456/2021", "Sita vs Board", "Item 5 in WP/456/2021", "3/4">>,
              <<"2) WP/456/2021", "", "Sita vs Board", "12">>,
              <<"CS 12/2020 Sita vs Board">>,
              <<"2. CS 12/2020 Sita vs Board", "Final hearing", "Sita 45620/21">> }
        SearchTerms == {"WP/456/2021", "12/2020", "Sita", "sita vs", "456/2021", "45620/21"}
        Encoded(entry) == [i \in 1..Len(entry) |-> Ord(entry[i])]
    IN \E first \in FirstEntries, second \in SecondEntries, term \in SearchTerms,
          is_party_name \in BOOLEAN :
        /\ searched = <<>>
        /\ searched' = [search_term |-> term, first |-> first, second |-> second,
                        is_party_name |-> is_party_name,
                        matches |-> search_case_in_text(
                                        Ord(term),
                                        Encoded(first) \o <<<<>>, <<>>>> \o Encoded(second),
                                        is_party_name)]
        /\ UNCHANGED <<registries, pdf_cache, current_search_session, pc, req,
                       completed, proxy_out, lookup_at, scraper_state, ocr_state,
                       page_state, disk, download_out, stored>>

SpecText == Init /\ [][SearchCaseInText]_vars

\* C21: when the term searched for is on a line of the second entry and on no
\* line of the first, the search returns one match, and its lines start_line
\* to end_line hold the matched line and no line of the first entry.
C21_SpanExcludesFirstEntry ==
    (/\ searched # <<>>
     /\ \E i \in 1..Len(searched.second) :
            Contains(Ord(searched.second[i]), Ord(searched.search_term))
     /\ \A i \in 1..Len(searched.first) :
            ~Contains(Ord(searched.first[i]), Ord(searched.search_term)))
    => /\ Len(searched.matches) = 1
       /\ LET m == searched.matches[1]
          IN /\ m.start_line <= m.line_number /\ m.line_number <= m.end_line
             /\ m.start_line > Len(searched.first)

\* ---- the loop of search_case_in_text, one iteration at a time ----

\* search_case_in_text is called: matches = [], lines = text.split('\n')
\* (one empty line for the empty text), i = 0.  scan tabulates, for the
\* arguments of this call, what an iteration on each line finds.
SearchBegin ==
    LET Lines ==
            { <<"">>,
              <<"WP/456/2021">>,
              <<"1. WP/123/2020", "Ram vs State">>,
              <<"2. WP/456/2021", "Sita vs Board", "Item 5 in WP/456/2021", "3/4">>,
              <<"1. WP/123/2020", "2. WP/456/2021", "3. WP/456/2021">>,
              <<"Sita", "", "", "Sita", "">>,
              <<"12", "Sita vs Board 12/2020", "12">>,
              <<"ORDERS", "Sita", "ORDERS", "sita vs State", "", "">> }
        SearchTerms == {"", "Sita", "WP/456/2021", "12", "sita vs"}
    IN \E lines \in Lines, term \in SearchTerms, is_party_name \in BOOLEAN :
        /\ searched = <<>>
        /\ searched' = [search_term |-> term, lines |-> lines,
                        is_party_name |-> is_party_name,
                        scan |-> [at \in 0..(Len(lines) - 1) |->
                                     ScanLine(Ord(term),
                                              [k \in 1..Len(lines) |-> Ord(lines[k])],
                                              is_party_name, at)],
                        i |-> 0, tested |-> <<>>, matches |-> <<>>]
        /\ UNCHANGED <<registries, pdf_cache, current_search_session, pc, req,
                       completed, proxy_out, lookup_at, scraper_state, ocr_state,
                       page_state, disk, download_out, stored>>

\* One iteration of `while i < len(lines)`.  tested lists the indices the
\* iterations so far tested for a match.
SearchIterate ==
    /\ searched # <<>>
    /\ searched.i < Len(searched.lines)
    /\ LET i == searched.i
           line == searched.scan[i]
       IN searched' = [searched EXCEPT
               !.i = advance(i, line.found, line.case_end),
               !.tested = Append(@, i),
               !.matches = IF line.found
                           THEN Append(@, [line_number |-> i + 1,
                                           start_line |-> line.case_start + 1,
                                           end_line |-> line.case_end])
                           ELSE @]
    /\ UNCHANGED <<registries, pdf_cache, current_search_session, pc, req,
                   completed, proxy_out, lookup_at, scraper_state, ocr_state,
                   page_state, disk, download_out, stored>>

NextLoop == SearchBegin \/ SearchIterate

\* The call runs on: while the loop's condition holds the next iteration is
\* taken.
SpecLoop == Init /\ [][NextLoop]_vars /\ WF_vars(SearchIterate)

\* C40: every iteration of the outer loop leaves the scan index greater than
\* it found it, after a match at the index the forward scan stopped at, which
\* is past the matched line; no index is tested for a match twice; and every
\* call reaches the end of the lines.
C40_ScanReachesTheEnd ==
    /\ [][searched # <<>> =>
              /\ searched'.i > searched.i
              /\ Len(searched'.matches) > Len(searched.matches) =>
                     /\ searched'.i = searched'.matches[Len(searched'.matches)].end_line
                     /\ searched'.matches[Len(searched'.matches)].line_number
                            = searched.i + 1
              /\ \A k \in 1..Len(searched.tested) : searched.tested[k] < searched.i
       ]_vars
    /\ (searched # <<>>) ~> (searched # <<>> /\ searched.i >= Len(searched.lines))

\* A finished call that found matches and, resuming at the end of an entry,
\* left lines untested.
C40_Witness ==
    /\ searched # <<>>
    /\ searched.i >= Len(searched.lines)
    /\ Len(searched.matches) >= 2
    /\ Len(searched.tested) < Len(searched.lines)

\* C39: of any two matches one search reports, the later one starts on a
\* line after the line the earlier one ends on.
C39_SpansDoNotOverlap ==
    searched # <<>> =>
        \A a, b \in 1..Len(searched.matches) :
            a < b => searched.matches[b].start_line > searched.matches[a].end_line

Next ==
    \/ \E kind \in {"hc", "dc", "hccl"} : SearchCase(kind)
    \/ InitDropdownSession
    \/ \E d \in Dropdowns \cup {NoKey} : SearchDistrictCauselist(d)
    \/ \E t \in Threads, e \in Kinds, k \in Keys \cup {NoKey, UnknownKey} : VerifyBegin(t, e, k)
    \/ \E t \in Threads : VerifyLookup(t)
    \/ \E t \in Threads : VerifySubmit(t)
    \/ \E t \in Threads : VerifyDel(t)
    \/ \E t \in Threads : VerifyHistory(t)
    \/ \E t \in Threads : VerifyDownload(t)
    \/ \E t \in Threads : RegCleanup(t)
    \/ \E t \in Threads : RegInstall(t)
    \/ \E t \in Threads : Return(t)

Spec == Init /\ [][Next]_vars

\* The search endpoints together with the proxy endpoint.
NextProxy ==
    \/ \E kind \in {"hc", "dc", "hccl"} : SearchCase(kind)
    \/ InitDropdownSession
    \/ \E d \in Dropdowns \cup {NoKey} : SearchDistrictCauselist(d)
    \/ \E pdf_url \in BOOLEAN, k \in Keys \cup {NoKey, UnknownKey}, body \in Bodies :
           ProxyPdf(pdf_url, k, body)

SpecProxy == Init /\ [][NextProxy]_vars

\* One request at a time: the same endpoints served by a single thread.
FirstThread == CHOOSE t \in Threads : \A u \in Threads : t <= u

NextSeq ==
    \/ \E kind \in {"hc", "dc", "hccl"} : SearchCase(kind)
    \/ InitDropdownSession
    \/ \E d \in Dropdowns \cup {NoKey} : SearchDistrictCauselist(d)
    \/ \E e \in Kinds, k \in Keys \cup {NoKey, UnknownKey} : VerifyBegin(FirstThread, e, k)
    \/ VerifyLookup(FirstThread)
    \/ VerifySubmit(FirstThread)
    \/ VerifyDel(FirstThread)
    \/ VerifyHistory(FirstThread)
    \/ VerifyDownload(FirstThread)
    \/ RegCleanup(FirstThread)
    \/ RegInstall(FirstThread)
    \/ Return(FirstThread)

SpecSeq == Init /\ [][NextSeq]_vars

\* A request thread takes a step of its verify request.
Steps(t) == pc'[t] # pc[t] \/ req'[t] # req[t]

\* C22: each iteration of process_cause_list_pdfs changes the cache by
\* exactly the keys it appends to matching_pdfs: a document that is skipped
\* (no link, failed download, no text) or has no match leaves the cache as it
\* was, and the key of a document with a match is in the cache afterwards.
C22_CacheHoldsTheMatches ==
    [][\A t \in Threads :
          pc[t] = "v_download" /\ req[t].endpoint = "hccl" /\ Steps(t) =>
              pdf_cache' = pdf_cache \cup (req'[t].ids \ req[t].ids)]_vars

C22_Witness ==
    \E t \in Threads :
        /\ req[t].endpoint = "hccl" /\ pc[t] = "v_cleanup"
        /\ req[t].ids # {} /\ req[t].ids \subseteq pdf_cache

\* C24: a store never replaces an entry: the key an iteration of a download
\* loop lists is not in the cache when the iteration begins.
C24_StoreUsesFreshKey ==
    [][\A t \in Threads :
          pc[t] = "v_download" /\ Steps(t) =>
              (req'[t].ids \ req[t].ids) \cap pdf_cache = {}]_vars

\* C25: when a verify request has answered with success, no key of the epoch
\* that was live before it is left in the cache: what the cache holds of the
\* live epoch are keys of this request.
C25_SuccessSupersedes ==
    \A t \in Threads :
        pc[t] = "done" /\ req[t].resp.ok =>
            (current_search_session \cap pdf_cache) \subseteq req[t].ids

\* C26: once a High Court verify has gone through its linked orders, every
\* order whose PDF the portal has ready has a key that is in the cache, and the
\* epoch the verify registers is the set of these keys.
C26_ServedOrdersAreCached ==
    \A t \in Threads :
        req[t].endpoint = "hc" =>
            /\ pc[t] \in {"v_cleanup", "v_install"} =>
                   \A l \in req[t].todo : \E id \in req[t].ids \cap pdf_cache : id[2] = l
            /\ pc[t] = "done" /\ req[t].registered =>
                   current_search_session = req[t].ids

\* ------------------------------------------------- /api/download-pdf/<pdf_id>
\* What a client can put in the place of pdf_id: a key some response gave it,
\* now or earlier, or any other text.
ClientPdfIds == {PdfId("dc", l, time) : l \in Links, time \in Times} \cup {<<"*">>, <<"order">>}

\* download_pdf: the cache entry when the dict holds pdf_id, else the first
\* file glob finds for it, else the 404 payload.  send_file is called with a
\* keyword extra_headers, which the installed Flask either takes or rejects
\* with a TypeError that the handler's `except Exception` turns into str(e), 500.
DownloadPdf(pdf_id) ==
    /\ \A t \in Threads : pc[t] = "idle"
    /\ LET pdf_files == {f \in disk.files : Glob(pdf_id, f.name)}
           Sent(source, key) ==
               [pdf_id |-> pdf_id, cached |-> pdf_id \in pdf_cache, source |-> source,
                served |-> key, resp |-> Success]
           Refused(response) ==
               [pdf_id |-> pdf_id, cached |-> pdf_id \in pdf_cache, source |-> "none",
                served |-> <<>>, resp |-> response]
       IN IF pdf_id \in pdf_cache
          THEN download_out' = Sent("memory-cache", pdf_id)
          ELSE IF pdf_files # {}
          THEN \E f \in pdf_files, takes_keyword \in BOOLEAN :
                   download_out' =
                       IF takes_keyword THEN Sent("disk", f.of)
                       ELSE Refused(InternalError("TypeError: unexpected keyword argument"))
          ELSE download_out' =
                   Refused(Failure(404, "PDF file not found. It may have been cleaned up."))
    /\ UNCHANGED <<registries, pdf_cache, current_search_session, pc, req, completed,
                   proxy_out, lookup_at, scraper_state, ocr_state, page_state, disk,
                   searched, stored>>

\* The process in local development: downloads/orders can be written, and
\* cleanup_downloads() has emptied it at start-up.
InitLocal ==
    /\ InitApp
    /\ scraper_class = "none"
    /\ args = NoArgs
    /\ image = NoImage
    /\ html = NoHtml
    /\ disk = [HostedDisk EXCEPT !.writable = TRUE]

\* District Court searches and downloads by key, one request at a time.
NextCache ==
    \/ SearchCase("dc")
    \/ \E k \in Keys \cup {NoKey, UnknownKey} : VerifyBegin(FirstThread, "dc", k)
    \/ VerifyLookup(FirstThread)
    \/ VerifySubmit(FirstThread)
    \/ VerifyDel(FirstThread)
    \/ VerifyDownload(FirstThread)
    \/ RegCleanup(FirstThread)
    \/ RegInstall(FirstThread)
    \/ Return(FirstThread)
    \/ \E pdf_id \in ClientPdfIds : DownloadPdf(pdf_id)

SpecCache == InitLocal /\ [][NextCache]_vars

\* C27: when register_search_session has cleaned up the live epoch, no file
\* written to downloads/orders for a key of that epoch is left.
C27_MirrorFilesDeleted ==
    [][\A t \in Threads :
          pc[t] = "v_cleanup" /\ Steps(t) =>
              \A f \in disk'.files : f.of \notin current_search_session]_vars

\* C28: a download by key answers with the entry stored under the key when
\* the cache holds the key and with the 404 payload when it does not, and
\* leaves the cache, the live epoch and the session registries as they were.
C28_DownloadByKey ==
    [][download_out' # download_out =>
          /\ IF download_out'.cached
             THEN download_out'.resp.ok /\ download_out'.served = download_out'.pdf_id
             ELSE download_out'.resp.status = 404
          /\ UNCHANGED <<registries, pdf_cache, current_search_session>>]_vars

\* download_pdf on a request thread of its own, while other requests are in
\* progress.  `if pdf_id in pdf_cache:` and `pdf_data = pdf_cache[pdf_id]` are
\* two reads of the dict with no lock around them: a thread switch between
\* them lets cleanup_old_session delete the key.  DownloadCheck is the first
\* read and, without the key, the rest of the handler.
DownloadCheck(t, pdf_id) ==
    /\ pc[t] = "idle"
    /\ NoResponsePending
    /\ LET r == [NoReq EXCEPT !.endpoint = "download", !.pdf_id = pdf_id]
           pdf_files == {f \in disk.files : Glob(pdf_id, f.name)}
       IN IF pdf_id \in pdf_cache
          THEN Goto(t, r, "d_serve")
          ELSE IF pdf_files # {}
          THEN \E takes_keyword \in BOOLEAN :
                   Respond(t, r, IF takes_keyword THEN Success
                                 ELSE InternalError("TypeError: unexpected keyword argument"))
          ELSE Respond(t, r, Failure(404, "PDF file not found. It may have been cleaned up."))
    /\ UNCHANGED <<registries, pdf_cache, current_search_session, disk, aside>>

\* `pdf_data = pdf_cache[pdf_id]` and the Response built from it; a KeyError
\* is caught by the handler's `except Exception` and answered with str(e), 500.
DownloadServe(t) ==
    /\ pc[t] = "d_serve"
    /\ Respond(t, req[t], IF req[t].pdf_id \in pdf_cache THEN Success
                          ELSE InternalError("KeyError"))
    /\ UNCHANGED <<registries, pdf_cache, current_search_session, disk, aside>>

\* District Court searches and verifies on the first thread, downloads by key
\* on the others, at the same time.
NextRace ==
    \/ SearchCase("dc")
    \/ \E k \in Keys \cup {NoKey, UnknownKey} : VerifyBegin(FirstThread, "dc", k)
    \/ VerifyLookup(FirstThread)
    \/ VerifySubmit(FirstThread)
    \/ VerifyDel(FirstThread)
    \/ VerifyDownload(FirstThread)
    \/ RegCleanup(FirstThread)
    \/ RegInstall(FirstThread)
    \/ \E t \in Threads \ {FirstThread}, pdf_id \in ClientPdfIds : DownloadCheck(t, pdf_id)
    \/ \E t \in Threads \ {FirstThread} : DownloadServe(t)
    \/ \E t \in Threads : Return(t)

SpecRace == Init /\ [][NextRace]_vars

\* C31: a download by key that has returned was answered with the stored
\* content or with the 404 payload, whatever ran between its steps.
C31_DownloadEndsServedOrNotFound ==
    \A t \in Threads :
        pc[t] = "done" /\ req[t].endpoint = "download" =>
            req[t].resp = Success \/ req[t].resp.status = 404

\* --------------------------------------------- what the scrapers cache
\* DistrictCourtsScraper.download_order_pdf: the body it caches for what the
\* portal answered to the display_pdf POST and, when that answer was JSON
\* naming a generated file, to the GET of that file; NoBody when it returns
\* None.  response.json() raises ValueError on a body that is no JSON text.
download_order_pdf(status, body, pdf_status, pdf_body) ==
    LET content == BytesOf(body)
        is_json == content # <<>> /\ content[1] = 123 /\ content[Len(content)] = 125
        \* '"order"' as a key of the JSON object
        has_order == Contains(content, <<34, 111, 114, 100, 101, 114, 34, 58>>)
    IN IF ~(status = 200 /\ content # <<>>) THEN NoBody
       ELSE IF StartsWith(content, PdfMagic) THEN body
       ELSE IF ~is_json \/ ~has_order THEN NoBody
       ELSE IF pdf_status = 200 /\ StartsWith(BytesOf(pdf_body), PdfMagic) THEN pdf_body
       ELSE NoBody

\* One call of download_order_pdf(pdf_link, pdf_cache) with app's pdf_cache;
\* the bodies are the short ones, which have no filler after their opening.
DownloadOrderPdf ==
    LET JsonBodies ==
            { [got |-> TRUE, len |-> 13,                      \* {"order":"x"}
               head |-> <<123, 34, 111, 114, 100, 101, 114, 34, 58, 34, 120, 34, 125>>],
              [got |-> TRUE, len |-> 13,                      \* {"error":"x"}
               head |-> <<123, 34, 101, 114, 114, 111, 114, 34, 58, 34, 120, 34, 125>>] }
        Short == {b \in Bodies : b.len = Len(b.head)}
    IN \E l \in Links, now \in Times, status \in {200, 404}, pdf_status \in {200, 404},
          body \in Short \cup JsonBodies, pdf_body \in Short, named \in BOOLEAN :
        LET kept == download_order_pdf(status, body, pdf_status, pdf_body)
            id == PdfId("dc", l, now)
            file == [name |-> DiskName(l, now, named), of |-> id]
        IN /\ body \notin JsonBodies => pdf_body = NoBody /\ pdf_status = 404
           /\ body.got \/ status = 404
           /\ kept # NoBody
           /\ pdf_cache' = Store(pdf_cache, id, "stored")
           /\ stored' = [by |-> "download_order_pdf", pdf_id |-> id, content |-> kept,
                         filename |-> file.name]
           /\ disk' = IF disk.writable
                      THEN [disk EXCEPT !.files = {f \in @ : f.name # file.name} \cup {file}]
                      ELSE disk
           /\ UNCHANGED <<registries, current_search_session, pc, req, completed,
                          proxy_out, lookup_at, scraper_state, ocr_state, page_state,
                          searched, download_out>>

\* One iteration of process_cause_list_pdfs that reaches `pdf_cache[pdf_id] =`:
\* the item has a link, download_pdf_to_memory returned a body that is not
\* empty, PyPDF2 extracted a text from it and the text holds the term.  The
\* body goes to PdfReader as it came; PdfReader finds a document by its
\* trailer and, not strict, reads one whose header is not at byte 0.
ProcessCauseListPdf ==
    LET Texts == { <<"1. WP/123/2020", "Ram vs State">>,
                   <<"2. WP/456/2021", "Sita vs Board">> }
        SearchTerms == {"WP/123/2020", "Sita"}
        Encoded(text) == [i \in 1..Len(text) |-> Ord(text[i])]
        Short == {b \in Bodies : b.len = Len(b.head)}
        \* a line feed before %PDF-1.4
        Preceded == [got |-> TRUE, len |-> 9, head |-> <<10, 37, 80, 68, 70, 45, 49, 46, 52>>]
    IN \E l \in Links, now \in Times, pdf_bytes \in Short \cup {Preceded},
          text \in Texts \cup {<<>>}, search_term \in SearchTerms, is_party_name \in BOOLEAN :
        LET matches == search_case_in_text(Ord(search_term), Encoded(text), is_party_name)
            id == PdfId("hccl", l, now)
        IN /\ pdf_bytes.got /\ BytesOf(pdf_bytes) # <<>>
           /\ text # <<>> => Contains(BytesOf(pdf_bytes), PdfMagic)
           /\ text # <<>> /\ matches # <<>>
           /\ pdf_cache' = Store(pdf_cache, id, "stored")
           /\ stored' = [by |-> "process_cause_list_pdfs", pdf_id |-> id,
                         content |-> pdf_bytes, filename |-> <<"causelist", id>>]
           /\ UNCHANGED <<registries, current_search_session, pc, req, completed,
                          proxy_out, lookup_at, scraper_state, ocr_state, page_state,
                          searched, download_out, disk>>

NextStore ==
    \/ DownloadOrderPdf
    \/ ProcessCauseListPdf

SpecStore == Init /\ [][NextStore]_vars

\* C32: the bytes of an entry a scraper stores in the cache begin with %PDF
\* once a leading BOM is removed.
C32_StoredBytesArePdf ==
    stored # <<>> => StartsWith(StripBom(BytesOf(stored.content)), PdfMagic)

C34_RegisteredAfterCaptcha ==
    /\ \A k \in Keys :
           active_sessions[k] # NoScraper =>
               /\ session_init[active_sessions[k]] # "failed"
               /\ captcha_seq[active_sessions[k]] >= 1
    /\ Cardinality({k \in Keys : active_sessions[k] # NoScraper}) <= issued

\* C35: when no request is in progress, every key of pdf_cache is a key of
\* the live epoch, so that the next register_search_session deletes it.
C35_CacheWithinLiveEpoch ==
    (\A t \in Threads : pc[t] \in {"idle", "done"}) =>
        pdf_cache \subseteq current_search_session

\* C36: fetch_judges sends the set_data request and then the fillCauseList
\* request, and when the answer to set_data held an app_token the
\* fillCauseList request carries that token.
C36_JudgeListCarriesSetDataToken ==
    returned.method = "fetch_judges" =>
        /\ Len(requests) = 2
        /\ requests[1].endpoint = "set_data"
        /\ requests[2].endpoint = "fillCauseList"
        /\ requests[1].answered # NoToken =>
               requests[2].app_token = requests[1].answered

\* The server goes on serving: a request in progress takes its next step and
\* clients keep sending requests.
SpecLive == Init /\ [][NextSeq]_vars /\ WF_vars(NextSeq)

\* C30: a key of a High Court cause-list scraper that is still in
\* active_sessions after a verify request on it has returned is removed from
\* active_sessions at some later time.
C30_KeptSessionIsRemoved ==
    \A k \in Keys :
        (k \in completed /\ Registered(k) /\ scraper_kind[active_sessions[k]] = "hccl")
            ~> ~Registered(k)

\* C29: what get_case_types of the High Court scraper returns is a mapping
\* with at least one code, whatever the portal answered and whether or not the
\* POST raised, and available_case_types is that mapping.
C29_CaseTypesNeverEmpty ==
    returned.method = "get_case_types" =>
        /\ DOMAIN returned.items # {}
        /\ \A code \in DOMAIN returned.items : code # <<>> /\ returned.items[code] # <<>>
        /\ fields.available_case_types = returned.items

C29_Witness ==
    /\ scraper_class = "hc"
    /\ returned = Returned("get_case_types", "dict", DefaultCaseTypes)
    /\ fields.available_case_types = DefaultCaseTypes

\* The process serving requests one at a time, or one scraper object under
\* the calls of its hierarchy methods.
NextRouting ==
    \/ scraper_class = "none" /\ NextSeq
    \/ NextScraper

SpecRouting == (Init \/ InitScraper) /\ [][NextRouting]_vars

\* A response is a payload: success with status 200, or a failure with a
\* status and a message.
Payload(resp) ==
    /\ resp.status \in {200, 400, 404, 500}
    /\ resp.ok <=> resp.status = 200
    /\ ~resp.ok => resp.error # ""

\* A request that has returned was answered with a payload; a failure
\* payload when its key was unknown or the portal rejected the CAPTCHA or
\* could not be reached.
HandlersAnswer ==
    \A t \in Threads :
        pc[t] = "done" =>
            /\ Payload(req[t].resp)
            /\ ~req[t].submitted /\ ~Registered(req[t].session_id)
                   /\ req[t].session_id \notin completed => req[t].resp = InvalidSession
            /\ req[t].cause \in {"badcaptcha", "transport"} => ~req[t].resp.ok

\* The step is a hierarchy lookup that has sent requests.
LookupStep ==
    /\ returned'.method \in Lookups \cup {"fetch_establishments", "fetch_judges"}
    /\ requests' # <<>>
    /\ <<requests, returned, app_token>>' # <<requests, returned, app_token>>

InitHistory ==
    /\ InitApp
    /\ disk = HostedDisk
    /\ scraper_class = "none"
    /\ args = NoArgs
    /\ image = NoImage
    /\ html \in Htmls

\* The requests go to the variants whose portal serves the page.
NextHistory ==
    \/ \E kind \in {"hc", "dc"} :
           /\ html = Lacking(FullPage(kind), ClassesOf(html))
           /\ SearchCase(kind)
    \/ \E e \in {"hc", "dc"}, k \in Keys \cup {NoKey, UnknownKey} :
           /\ html = Lacking(FullPage(e), ClassesOf(html))
           /\ VerifyBegin(FirstThread, e, k)
    \/ VerifyLookup(FirstThread)
    \/ VerifySubmit(FirstThread)
    \/ VerifyDel(FirstThread)
    \/ VerifyHistory(FirstThread)
    \/ VerifyDownload(FirstThread)
    \/ RegCleanup(FirstThread)
    \/ RegInstall(FirstThread)
    \/ Return(FirstThread)

SpecHistory == InitHistory /\ [][NextHistory]_vars

\* ------------------------------------------------- hierarchy endpoints
\* get_districts, get_court_complexes, get_district_case_types: every call
\* constructs a DistrictCourtsScraper of its own, runs initialize_session and
\* one lookup on it and drops it.
DistrictCourtLookup ==
    /\ NoResponsePending
    /\ CanConstruct
    /\ scraper_kind' = [scraper_kind EXCEPT ![NewScraper] = "dc"]
    /\ session_init' = [session_init EXCEPT ![NewScraper] = "ok"]
    /\ lookup_at' = [lookup_at EXCEPT ![NewScraper] = captcha_seq[NewScraper]]
    /\ UNCHANGED <<active_sessions, district_causelist_sessions, captcha_seq, challenge_of,
                   issued, pdf_cache, current_search_session, pc, req, completed,
                   proxy_out, scraper_state, ocr_state, page_state, disk, text_state>>

\* get_district_causelist_districts, _complexes, _establishments, _judges:
\* the lookup runs on the scraper stored under the dropdown session the
\* request names, otherwise on a scraper constructed for this one call.
DistrictCauselistLookup(d) ==
    /\ NoResponsePending
    /\ LET reuse == d # NoKey /\ district_causelist_sessions[d] # NoScraper
           s == IF reuse THEN district_causelist_sessions[d] ELSE NewScraper
       IN /\ reuse \/ CanConstruct
          /\ scraper_kind' = [scraper_kind EXCEPT ![s] = "dcl"]
          \* only get_district_causelist_districts looks at what
          \* initialize_session returned
          /\ \E init \in {"ok", "failed"} :
                 /\ reuse => init = session_init[s]
                 /\ session_init' = [session_init EXCEPT ![s] = init]
          /\ lookup_at' = [lookup_at EXCEPT ![s] = captcha_seq[s]]
    /\ UNCHANGED <<active_sessions, district_causelist_sessions, captcha_seq, challenge_of,
                   issued, pdf_cache, current_search_session, pc, req, completed,
                   proxy_out, scraper_state, ocr_state, page_state, disk, text_state>>

\* The requests of one client at a time, hierarchy lookups included.
NextHierarchy ==
    \/ NextSeq
    \/ DistrictCourtLookup
    \/ \E d \in Dropdowns \cup {NoKey} : DistrictCauselistLookup(d)

SpecHierarchy == Init /\ [][NextHierarchy]_vars

\* ================================================================ properties
\* The request of thread t went to the verify endpoint of the variant that
\* issued its key.
OwnEndpoint(t) ==
    /\ req[t].session_id \in Keys
    /\ challenge_of[req[t].session_id] # NoChallenge
    /\ scraper_kind[challenge_of[req[t].session_id].scraper] = req[t].endpoint

Finished(t) == pc[t] = "done"

\* C1: once a verify-captcha request for key k has completed, every later
\* verify-captcha request with k (sent to the endpoint of k's own variant) is
\* answered with the invalid-session failure and submits nothing to the portal.
C1_SingleUse ==
    \A t \in Threads :
        Finished(t) /\ OwnEndpoint(t) /\ req[t].after =>
            req[t].resp = InvalidSession /\ ~req[t].submitted

\* C2: when a District Court or District cause-list verify-captcha request
\* that reached the portal has finished, whatever its outcome (an exception
\* while the result is processed included), its key is no longer in
\* active_sessions.
C2_KeyDiscarded ==
    \A t \in Threads :
        Finished(t) /\ req[t].submitted /\ req[t].endpoint \in {"dc", "dcl"} =>
            active_sessions[req[t].session_id] = NoScraper

\* C3: a verify-captcha request submits its CAPTCHA text through the scraper
\* whose get_captcha produced the challenge returned with its key, while that
\* challenge is still the latest one issued on that scraper.
C3_ChallengeStillCurrent ==
    \A t \in Threads :
        req[t].submitted => req[t].used = challenge_of[req[t].session_id]

\* C4: with requests served one at a time, a request that registered the
\* epoch with key set B leaves pdf_cache holding exactly the keys of B,
\* whatever the epoch A that was live before (A and B may share keys).
C4_CacheIsNewEpoch ==
    Finished(FirstThread) /\ req[FirstThread].registered =>
        pdf_cache = req[FirstThread].ids

\* C5: when two overlapping verify requests of different searches have
\* registered the disjoint key sets A and B, the live epoch is A or B and
\* pdf_cache holds exactly the keys of the live epoch.
C5_RegistrationIsAtomic ==
    \A t, u \in Threads :
        /\ t # u
        /\ req[t].session_id # req[u].session_id
        /\ Finished(t) /\ req[t].registered
        /\ Finished(u) /\ req[u].registered
        /\ req[t].ids \cap req[u].ids = {}
        => /\ current_search_session \in {req[t].ids, req[u].ids}
           /\ pdf_cache = current_search_session

\* C6: every scraper object is reachable from at most one key, counting the
\* keys of active_sessions and of district_causelist_sessions together.
C6_OneKeyPerScraper ==
    \A s \in Scrapers :
        Cardinality({k \in Keys : active_sessions[k] = s})
        + Cardinality({d \in Dropdowns : district_causelist_sessions[d] = s}) <= 1

\* C7: of two overlapping verify-captcha requests with the same key (both sent
\* to the endpoint of the key's variant) at most one submits to the portal,
\* and neither is answered with an internal error.
C7_OneSubmissionPerKey ==
    \A t, u \in Threads :
        /\ t # u
        /\ Finished(t) /\ Finished(u)
        /\ OwnEndpoint(t) /\ OwnEndpoint(u)
        /\ req[t].session_id = req[u].session_id
        => /\ ~(req[t].submitted /\ req[u].submitted)
           /\ req[t].resp.status # 500
           /\ req[u].resp.status # 500

\* C10: two verify-captcha requests of different searches, sent to the same
\* endpoint, that failed at the portal for different reasons (CAPTCHA
\* rejected, no record, transport error) are answered with different values.
C10_ReasonsDistinguished ==
    \A t, u \in Threads :
        /\ Finished(t) /\ Finished(u)
        /\ req[t].session_id # req[u].session_id
        /\ req[t].submitted /\ req[u].submitted
        /\ req[t].endpoint = req[u].endpoint
        /\ req[t].cause \in {"badcaptcha", "norecord", "transport"}
        /\ req[u].cause \in {"badcaptcha", "norecord", "transport"}
        /\ req[t].cause # req[u].cause
        => req[t].resp # req[u].resp

\* C11: a verify-captcha request whose CAPTCHA the portal accepted and that
\* found no matching case or cause list ends in a success answer, in every
\* variant.
C11_NoRecordIsSuccess ==
    \A t \in Threads :
        Finished(t) /\ req[t].submitted /\ req[t].cause = "norecord" =>
            req[t].resp.ok

\* C12: on one District Court or District cause-list scraper every request
\* that carries app_token carries the token of the most recent portal response
\* that contained one (the page token of initialize_session before any such
\* response); no request carries an older token.
C12_LatestTokenSent ==
    \A i \in 1..Len(requests) : requests[i].app_token = requests[i].latest

\* C14: in the case-search variants a successful CAPTCHA-gated submission is
\* followed by the second history lookup before a record is returned: no
\* verify request answers success with a record built from the first
\* (locator-only) response alone.
C14_HistoryBeforeRecord ==
    \A t \in Threads :
        Finished(t) /\ req[t].endpoint \in {"hc", "dc"} /\ req[t].resp.ok =>
            req[t].case_data = "history"

\* C15: on any session no hierarchy lookup runs between the CAPTCHA fetch of
\* that session and its verify submission: when a verify request submits
\* through a scraper, the last hierarchy lookup on that scraper is older than
\* the CAPTCHA the submission answers.
C15_NoLookupAfterCaptcha ==
    [][\A t \in Threads :
           pc[t] = "v_submit" /\ req'[t].submitted =>
               lookup_at[req'[t].used.scraper] # req'[t].used.seq]_vars

\* C16: the lookups of a District Court case search and its CAPTCHA fetch run
\* on one session: when search_district_court stores a scraper under a new
\* key after hierarchy lookups of the District Court variant, that scraper is
\* one the lookups ran on.
C16_LookupsAndCaptchaShareSession ==
    [][/\ issued' = issued + 1
       /\ scraper_kind'[active_sessions'[issued']] = "dc"
       /\ \E s \in Scrapers : scraper_kind[s] = "dc" /\ lookup_at[s] # NoLookup
       => lookup_at'[active_sessions'[issued']] # NoLookup]_vars

\* The positions of '@' in a court-complex code.
Ats(code) == {i \in 1..Len(code) : code[i] = "@"}
FirstAt(code) == CHOOSE i \in Ats(code) : \A j \in Ats(code) : i <= j
LastAt(code) == CHOOSE i \in Ats(code) : \A j \in Ats(code) : j <= i

\* The code reads code@estCodes@flag with flag 'N' or '0'.
BypassForm(code) ==
    /\ Cardinality(Ats(code)) = 2
    /\ SubSeq(code, LastAt(code) + 1, Len(code)) \in {<<"N">>, <<"0">>}

EstCodesOf(code) == SubSeq(code, FirstAt(code) + 1, LastAt(code) - 1)

SubStructure(endpoint, record, class) ==
    IF endpoint = "dc"
    THEN CASE class = "case_details_table" -> record.case_details
           [] class = "case_status_table" -> record.case_status
           [] class = "Petitioner_Advocate_table" -> record.parties.petitioners
           [] class = "Respondent_Advocate_table" -> record.parties.respondents
           [] class = "acts_table" -> record.acts
           [] class = "Lower_court_table" -> record.subordinate_court
           [] class = "history_table" -> record.hearings
           [] class = "order_table" -> record.orders
    ELSE CASE class = "case_details_table" -> record.case_details
           [] class = "table_r" -> record.case_status
           [] class = "Petitioner_Advocate_table" ->
                  [k \in DOMAIN record.parties \cap {"petitioner"} |-> record.parties[k]]
           [] class = "Respondent_Advocate_table" ->
                  [k \in DOMAIN record.parties \cap {"respondent"} |-> record.parties[k]]
           [] class = "order_table" -> record.orders

\* C19: when the history page lacks any subset of the expected tables, the
\* record of the verify request has an empty sub-structure for every missing
\* table, every other sub-structure is what it is for the complete page,
\* and the request is answered success with that record.
C19_MissingTablesLeaveEmptySections ==
    \A t \in Threads :
        Finished(t) /\ req[t].case_data = "history" =>
            LET e == req[t].endpoint
            IN /\ req[t].resp.ok
               /\ \A class \in ClassesOf(FullPage(e)) :
                     SubStructure(e, req[t].record, class)
                         = IF class \in ClassesOf(html)
                           THEN SubStructure(e, Parse(e, FullPage(e)), class)
                           ELSE <<>>

C19_Witness ==
    \E t \in Threads :
        /\ Finished(t)
        /\ req[t].endpoint = "dc"
        /\ req[t].case_data = "history"
        /\ req[t].resp.ok
        /\ req[t].registered
        /\ ClassesOf(html) = {"case_details_table", "Respondent_Advocate_table", "order_table"}
        /\ req[t].record.acts = <<>>
        /\ req[t].record.hearings = <<>>
        /\ req[t].record.parties.petitioners = <<>>
        /\ req[t].record.parties.respondents
               = <<[name |-> <<"State">>], [name |-> <<"Board", "Advocate", "Hari">>]>>
        /\ req[t].record.case_details["Filing Date"] = "01-01-2020"
        /\ Len(req[t].record.orders) = NumLinks + 1

Downloaded == IF proxy_out.body.got THEN BytesOf(proxy_out.body) ELSE <<>>

IsPdfBody(b) == StartsWith(b, PdfMagic) \/ StartsWith(b, BOM \o PdfMagic)

\* The decoded body contains 'not uploaded' in any letter case.
CarriesPhrase(b) ==
    LET d == Decode(b)
        n == Len(NotUploadedPhrase)
    IN \E i \in 1..(Len(d) - n + 1) :
         \A j \in 1..n :
            \/ d[i + j - 1] = NotUploadedPhrase[j]
            \/ /\ NotUploadedPhrase[j] \in 97..122
               /\ d[i + j - 1] = NotUploadedPhrase[j] - 32

====
